---- MODULE Spec2Model ----
(***************************************************************************)
(* Model of the FLAME regulatory feed ingestion: the six source adapters   *)
(* (scripts/regulatory/sources), RegulatorySource.run (regulatory/base.py),*)
(* RegulatoryAlert.to_csv_row (regulatory/models.py) and collect_alerts /  *)
(* write_csv (scripts/fetch_regulatory_data.py).                           *)
(*                                                                         *)
(* Python values: a str is a sequence of one-character strings; a value    *)
(* that may be None is a record [t, s] with t \in {"str", "None"}; a key   *)
(* that a dict / element may lack is the value Missing.                    *)
(***************************************************************************)
EXTENDS Integers, Sequences, FiniteSets, TLC

VARIABLES
    sources,     \* collect_alerts: the mapping, as the sequence of adapter names it iterates
    config,      \* per adapter: the category_mapping its instance was built with
    pc,          \* main: "collect", "done", "crashed"; "parse" for direct parse() calls
    idx,         \* collect_alerts: number of mapping entries already run
    all_alerts,  \* collect_alerts: the merged list
    runs,        \* per finished mapping entry: what its run() did
    csv_file,    \* write_csv: the rows of the output file, or NoFile
    budget,      \* upstream items the environment may still serve
    call,        \* last direct parse() call: [source, raw, raised, alerts], or NoCall
    again,       \* the parse() call repeated on the same instance and raw, or NoCall
    db,          \* build_database: the regulatory tables, or NoDb before the build
    files,       \* ft3_mapper: the texts of ThreatPaths/TP-*.md, in sorted order
    output,      \* ft3_mapper: the suggestions written to ft3_mapping_suggestions.json, or NoFile
    log,         \* ft3_mapper: one record per finished run of main()
    applied,     \* last direct apply_ft3_tactics() call, or <<>>
    mapcall      \* last direct map_single_tp() call, or <<>>

vars == <<sources, config, pc, idx, all_alerts, runs, csv_file, budget, call, again,
          db, files, output, log, applied, mapcall>>

\* the variables of the FT3 mapper, and those of the regulatory store
mapperVars == <<files, output, log, applied, mapcall>>

-----------------------------------------------------------------------------
(* Bounds of the model.                                                    *)

MaxSources == 2
MaxItems == 2

-----------------------------------------------------------------------------
(* Python values and str operations.                                       *)

Str(s) == [t |-> "str", s |-> s]
PyNone == [t |-> "None", s |-> <<>>]
Missing == [t |-> "missing", s |-> <<>>]

\* dict.get(key, default): the default only when the key is absent
Get(v, default) == IF v.t = "missing" THEN default ELSE v

\* str(x) of a str or None
PyStr(v) == IF v.t = "None" THEN Str(<<"N", "o", "n", "e">>) ELSE v

Upper == <<"A", "B", "C", "D", "E", "F", "G", "H", "I", "J", "K", "L", "M",
           "N", "O", "P", "Q", "R", "S", "T", "U", "V", "W", "X", "Y", "Z">>
LowerOf == <<"a", "b", "c", "d", "e", "f", "g", "h", "i", "j", "k", "l", "m",
             "n", "o", "p", "q", "r", "s", "t", "u", "v", "w", "x", "y", "z">>

LowerChar(c) ==
    IF \E i \in 1..26 : Upper[i] = c
    THEN LowerOf[CHOOSE i \in 1..26 : Upper[i] = c]
    ELSE c

\* s.lower()
Lower(s) == [i \in 1..Len(s) |-> LowerChar(s[i])]

\* sub in s
Contains(s, sub) ==
    \E i \in 0..(Len(s) - Len(sub)) : SubSeq(s, i + 1, i + Len(sub)) = sub

\* s.startswith(p), s.endswith(p)
StartsWith(s, p) == Len(p) <= Len(s) /\ SubSeq(s, 1, Len(p)) = p
EndsWith(s, p) == Len(p) <= Len(s) /\ SubSeq(s, Len(s) - Len(p) + 1, Len(s)) = p

IsSpace(c) == c \in {" ", "\n", "\t"}

RECURSIVE LStrip(_)
LStrip(s) == IF s # <<>> /\ IsSpace(Head(s)) THEN LStrip(Tail(s)) ELSE s

RECURSIVE RStrip(_)
RStrip(s) ==
    IF s # <<>> /\ IsSpace(s[Len(s)]) THEN RStrip(SubSeq(s, 1, Len(s) - 1)) ELSE s

\* s.strip()
Strip(s) == RStrip(LStrip(s))

\* s[:n]
Prefix(s, n) == SubSeq(s, 1, IF Len(s) < n THEN Len(s) ELSE n)

Digit == <<"0", "1", "2", "3", "4", "5", "6", "7", "8", "9">>

RECURSIVE Decimal(_)
Decimal(n) == IF n < 10 THEN <<Digit[n + 1]>> ELSE Decimal(n \div 10) \o <<Digit[(n % 10) + 1]>>

RECURSIVE ZeroPad(_, _)
ZeroPad(s, w) == IF Len(s) >= w THEN s ELSE ZeroPad(<<"0">> \o s, w)

\* f"{n:04d}"
Fmt04d(n) == ZeroPad(Decimal(n), 4)

-----------------------------------------------------------------------------
(* regulatory/models.py: the alert record and its CSV row.                 *)

CSV_COLUMNS ==
    <<<<"s", "o", "u", "r", "c", "e">>,
      <<"a", "l", "e", "r", "t", "_", "i", "d">>,
      <<"t", "i", "t", "l", "e">>,
      <<"d", "a", "t", "e">>,
      <<"c", "a", "t", "e", "g", "o", "r", "y">>,
      <<"m", "a", "p", "p", "e", "d", "_", "t", "p", "_", "i", "d", "s">>,
      <<"u", "r", "l">>,
      <<"s", "e", "v", "e", "r", "i", "t", "y">>,
      <<"s", "u", "m", "m", "a", "r", "y">>>>

\* RegulatoryAlert(...): every field but mapped_tp_ids holds a Python value
RegulatoryAlert(source, alert_id, title, date, category, mapped_tp_ids, url, severity, summary) ==
    [source |-> source, alert_id |-> alert_id, title |-> title, date |-> date,
     category |-> category, mapped_tp_ids |-> mapped_tp_ids, url |-> url,
     severity |-> severity, summary |-> summary]

\* datetime.date.isoformat(): YYYY-MM-DD
IsoFormat(d) ==
    ZeroPad(Decimal(d.year), 4) \o <<"-">> \o ZeroPad(Decimal(d.month), 2)
        \o <<"-">> \o ZeroPad(Decimal(d.day), 2)

RECURSIVE Join(_, _)
\* sep.join(list)
Join(sep, list) ==
    IF list = <<>> THEN <<>>
    ELSE IF Len(list) = 1 THEN list[1]
    ELSE list[1] \o sep \o Join(sep, Tail(list))

\* faulty variant: the TP ids joined with a comma
to_csv_row_CommaJoined(alert) ==
    <<alert.source,
      alert.alert_id,
      alert.title,
      IF alert.date.t = "date" THEN Str(IsoFormat(alert.date)) ELSE PyStr(alert.date),
      alert.category,
      Str(Join(<<",">>, alert.mapped_tp_ids)),
      alert.url,
      alert.severity,
      alert.summary>>

\* RegulatoryAlert.to_csv_row: the values in CSV_COLUMNS order
to_csv_row(alert) ==
    <<alert.source,
      alert.alert_id,
      alert.title,
      IF alert.date.t = "date" THEN Str(IsoFormat(alert.date)) ELSE PyStr(alert.date),
      alert.category,
      Str(Join(<<"|">>, alert.mapped_tp_ids)),
      alert.url,
      alert.severity,
      alert.summary>>

-----------------------------------------------------------------------------
(* regulatory/base.py: the adapter contract.                               *)

Adapters == {"cfpb", "occ", "sec", "ofac", "fincen", "fbi_ic3"}

TP1 == <<"T", "P", "-", "0", "0", "0", "1">>
TP2 == <<"T", "P", "-", "0", "0", "0", "2">>

\* RegulatorySource.map_category_to_tps: category_mapping.get(category, [])
map_category_to_tps(category_mapping, category) ==
    IF category.t = "str" /\ category.s \in DOMAIN category_mapping
    THEN category_mapping[category.s]
    ELSE <<>>

\* what parse() hands back: the alerts, or an exception
Returned(alerts) == [raised |-> FALSE, alerts |-> alerts]
Raised == [raised |-> TRUE, alerts |-> <<>>]

\* a raw value of the shapes every adapter may be handed
EmptyStr == [t |-> "str", s |-> <<>>]
EmptyList == [t |-> "list", s |-> <<>>]
EmptyBytes == [t |-> "bytes", s |-> <<>>]

\* "not raw_data" for the values above
Falsy(raw) == raw.t = "None" \/ (raw.t \in {"str", "list", "bytes"} /\ raw.s = <<>>)

-----------------------------------------------------------------------------
(* regulatory/sources/cfpb.py.  The raw value is the decoded JSON:         *)
(*   {"hits": {"hits": [{"_source": {...}}, ...]}}                         *)
(* a dict is a record with t = "dict" and one field per key the code       *)
(* reads, Missing when the key is absent.                                  *)

NoSource == [t |-> "dict", complaint_id |-> Missing, product |-> Missing,
             date_received |-> Missing, issue |-> Missing,
             complaint_what_happened |-> Missing]

\* f"cfpb-{complaint_id}"
CfpbAlertId(complaint_id) == <<"c", "f", "p", "b", "-">> \o complaint_id.s

\* the body of the loop over hits: one alert, or an exception
CfpbAlert(category_mapping, hit) ==
    LET src == Get(hit._source, NoSource) IN
    IF src.t # "dict" THEN Raised
    ELSE
        LET complaint_id == PyStr(Get(src.complaint_id, Str(<<>>)))
            product == Get(src.product, Str(<<>>))
            date_received == Get(src.date_received, Str(<<>>))
            issue == Get(src.issue, Str(<<>>))
            narrative == Get(src.complaint_what_happened, Str(<<>>))
            tp_ids == map_category_to_tps(category_mapping, product)
        IN Returned(<<RegulatoryAlert(Str(<<"c", "f", "p", "b">>), Str(CfpbAlertId(complaint_id)),
                                      issue, date_received, product, tp_ids,
                                      Str(<<>>), Str(<<"m", "e", "d", "i", "u", "m">>), narrative)>>)

RECURSIVE CfpbLoop(_, _, _)
CfpbLoop(category_mapping, hits, alerts) ==
    IF hits = <<>> THEN Returned(alerts)
    ELSE LET one == CfpbAlert(category_mapping, Head(hits)) IN
         IF one.raised THEN Raised
         ELSE CfpbLoop(category_mapping, Tail(hits), alerts \o one.alerts)

\* CFPBSource.parse
CFPBSource_parse(category_mapping, raw_data) ==
    IF raw_data.t # "dict" THEN Raised                 \* no .get on None, str, list, bytes
    ELSE LET outer == Get(raw_data.hits, [t |-> "dict", hits |-> Missing]) IN
         IF outer.t # "dict" THEN Raised
         ELSE LET hits == Get(outer.hits, [t |-> "list", items |-> <<>>]) IN
              IF hits.t # "list" THEN Raised           \* iterating None
              ELSE CfpbLoop(category_mapping, hits.items, <<>>)

-----------------------------------------------------------------------------
(* regulatory/sources/ofac.py.  The raw value is bytes; a well-formed      *)
(* document is given by its element tree: the namespace of the root, the   *)
(* Publish_Date under publshInformation, and the sdnEntry elements, each   *)
(* child element's text being Missing when the element is absent.  (The    *)
(* dash of the summary is U+2014 in the source.)                           *)

\* OFACSource._text: the stripped text of a child, or the default
OfacText(child, default) ==
    IF child.t = "str" /\ child.s # <<>> THEN Strip(child.s) ELSE default

RECURSIVE OfacPrograms(_)
\* the texts of the program elements that have one
OfacPrograms(progs) ==
    IF progs = <<>> THEN <<>>
    ELSE (IF Head(progs).t = "str" /\ Head(progs).s # <<>>
          THEN <<Strip(Head(progs).s)>> ELSE <<>>) \o OfacPrograms(Tail(progs))

\* f"ofac-{uid}"
OfacAlertId(uid) == <<"o", "f", "a", "c", "-">> \o uid

OfacAlert(category_mapping, publish_date, entry) ==
    LET uid == OfacText(entry.uid, <<>>)
        first == OfacText(entry.firstName, <<>>)
        last == OfacText(entry.lastName, <<>>)
        sdn_type == OfacText(entry.sdnType, <<>>)
        programs == IF entry.programList.t = "list" THEN OfacPrograms(entry.programList.items) ELSE <<>>
        category == Str(<<"S", "D", "N", " ", "L", "i", "s", "t", " ", "A", "d", "d", "i", "t", "i", "o", "n">>)
        tp_ids == map_category_to_tps(category_mapping, category)
        title == <<"O", "F", "A", "C", " ", "S", "D", "N", ":", " ">> \o first \o <<" ">> \o last \o <<" ", "(">> \o sdn_type \o <<")">>
        summary == <<"S", "D", "N", " ", "e", "n", "t", "r", "y", " ", "-", " ", "t", "y", "p", "e", ":", " ">> \o sdn_type \o <<",", " ", "p", "r", "o", "g", "r", "a", "m", "s", ":", " ">> \o Join(<<",", " ">>, programs)
    IN RegulatoryAlert(Str(<<"o", "f", "a", "c">>), Str(OfacAlertId(uid)), Str(title), Str(publish_date),
                       category, tp_ids, Str(<<>>), Str(<<"h", "i", "g", "h">>), Str(summary))

\* OFACSource.parse
OFACSource_parse(category_mapping, raw_data) ==
    IF raw_data.t # "xml" THEN Raised                  \* fromstring: None, empty or malformed bytes
    ELSE LET publish_date == IF raw_data.publshInformation.t = "elem"
                             THEN OfacText(raw_data.publshInformation.Publish_Date, <<>>)
                             ELSE <<>>
         IN Returned([i \in 1..Len(raw_data.sdnEntry) |->
                         OfacAlert(category_mapping, publish_date, raw_data.sdnEntry[i])])

-----------------------------------------------------------------------------
(* The four adapters that scrape HTML.  A non-empty page is given by what  *)
(* BeautifulSoup finds in it: [t |-> "html", els |-> the elements that     *)
(* find_all returns, in document order].  The result of a regular          *)
(* expression search on an element's text is a field of the element        *)
(* (date_match), Missing when nothing matches.  A raw value BeautifulSoup  *)
(* cannot read raises inside the try block.                                *)

RECURSIVE DedupeLoop(_, _, _)
DedupeLoop(alerts, seen, unique) ==
    IF alerts = <<>> THEN unique
    ELSE IF Head(alerts).title \notin seen
         THEN DedupeLoop(Tail(alerts), seen \cup {Head(alerts).title}, Append(unique, Head(alerts)))
         ELSE DedupeLoop(Tail(alerts), seen, unique)

\* "Dedupe by title": the first alert of every title, in order
DedupeByTitle(alerts) == DedupeLoop(alerts, {}, <<>>)

\* faulty variant: the two tiers exchanged
OccSeveritySwapped(tp_ids) == IF tp_ids # <<>> THEN <<"l", "o", "w">> ELSE <<"m", "e", "d", "i", "u", "m">>

\* severity = "medium" if tp_ids else "low"
OccSeverity(tp_ids) == IF tp_ids # <<>> THEN <<"m", "e", "d", "i", "u", "m">> ELSE <<"l", "o", "w">>

\* faulty variant: the numbering goes on from the alerts of the previous call
OccAlertIdCounter(alerts) ==
    <<"o", "c", "c", "-">> \o Fmt04d(Len(alerts) + (IF call = <<>> THEN 0 ELSE Len(call[1].alerts)))

\* f"occ-{len(alerts):04d}"
OccAlertId(alerts) == <<"o", "c", "c", "-">> \o Fmt04d(Len(alerts))

OccTitleLimit == 150
OccTitleKept == 147
OccMinText == 10

OccAlert(category_mapping, a, alerts) ==
    LET text == Strip(a.text)
        title == IF Len(text) > OccTitleLimit THEN Prefix(text, OccTitleKept) \o <<".", ".", ".">> ELSE text
        date == IF a.parent.t = "elem"
                THEN IF a.parent.time.t = "str" THEN Strip(a.parent.time.s)
                     ELSE Get(a.parent.date_match, Str(<<>>)).s
                ELSE <<>>
        category == IF Contains(Lower(title), <<"e", "n", "f", "o", "r", "c", "e", "m", "e", "n", "t">>)
                    THEN Str(<<"E", "n", "f", "o", "r", "c", "e", "m", "e", "n", "t", " ", "A", "c", "t", "i", "o", "n">>) ELSE Str(<<"B", "u", "l", "l", "e", "t", "i", "n">>)
        tp_ids == map_category_to_tps(category_mapping, category)
        severity == OccSeverity(tp_ids)
        href == IF StartsWith(a.href, <<"/">>) THEN <<"h", "t", "t", "p", "s", ":", "/", "/", "w", "w", "w", ".", "o", "c", "c", ".", "g", "o", "v">> \o a.href ELSE a.href
    IN RegulatoryAlert(Str(<<"o", "c", "c">>), Str(OccAlertId(alerts)), Str(title), Str(date), category,
                       tp_ids, Str(href), Str(severity), Str(<<"O", "C", "C", " ", "R", "e", "g", "u", "l", "a", "t", "o", "r", "y", " ", "B", "u", "l", "l", "e", "t", "i", "n">>))

RECURSIVE OccLoop(_, _, _)
OccLoop(category_mapping, anchors, alerts) ==
    IF anchors = <<>> THEN alerts
    ELSE LET a == Head(anchors) IN
         IF Contains(Lower(a.href), <<"b", "u", "l", "l", "e", "t", "i", "n">>) /\ Len(Strip(a.text)) > OccMinText /\ ~a.img
         THEN OccLoop(category_mapping, Tail(anchors), Append(alerts, OccAlert(category_mapping, a, alerts)))
         ELSE OccLoop(category_mapping, Tail(anchors), alerts)

\* OCCSource.parse
OCCSource_parse(category_mapping, raw_data) ==
    IF Falsy(raw_data) THEN Returned(<<>>)
    ELSE IF raw_data.t # "html" THEN Returned(DedupeByTitle(<<>>))
    ELSE Returned(DedupeByTitle(OccLoop(category_mapping, raw_data.els, <<>>)))

\* severity = "high" if tp_ids else "medium" (SEC, FinCEN, FBI IC3)
HighIfMapped(tp_ids) == IF tp_ids # <<>> THEN <<"h", "i", "g", "h">> ELSE <<"m", "e", "d", "i", "u", "m">>

\* f"ic3-{len(alerts):04d}"
Ic3AlertId(alerts) == <<"i", "c", "3", "-">> \o Fmt04d(Len(alerts))

Ic3Alert(category_mapping, a, alerts) ==
    LET date == Get(a.date_match, Str(<<>>))
        category == Str(<<"I", "n", "d", "u", "s", "t", "r", "y", " ", "A", "l", "e", "r", "t">>)
        tp_ids == map_category_to_tps(category_mapping, category)
        severity == HighIfMapped(tp_ids)
        href == IF StartsWith(a.href, <<"/">>) THEN <<"h", "t", "t", "p", "s", ":", "/", "/", "w", "w", "w", ".", "i", "c", "3", ".", "g", "o", "v">> \o a.href ELSE a.href
    IN RegulatoryAlert(Str(<<"f", "b", "i", "_", "i", "c", "3">>), Str(Ic3AlertId(alerts)), Str(Strip(a.text)), date, category,
                       tp_ids, Str(href), Str(severity), Str(<<"F", "B", "I", " ", "I", "C", "3", " ", "N", "o", "t", "i", "f", "i", "c", "a", "t", "i", "o", "n">>))

RECURSIVE Ic3Loop(_, _, _)
Ic3Loop(category_mapping, anchors, alerts) ==
    IF anchors = <<>> THEN alerts
    ELSE LET a == Head(anchors) IN
         IF Contains(a.href, <<"/", "C", "S", "A", "/">>) /\ EndsWith(Lower(a.href), <<".", "p", "d", "f">>)
         THEN Ic3Loop(category_mapping, Tail(anchors), Append(alerts, Ic3Alert(category_mapping, a, alerts)))
         ELSE Ic3Loop(category_mapping, Tail(anchors), alerts)

\* FBIC3Source.parse
FBIC3Source_parse(category_mapping, raw_data) ==
    IF Falsy(raw_data) THEN Returned(<<>>)
    ELSE IF raw_data.t # "html" THEN Returned(DedupeByTitle(<<>>))
    ELSE Returned(DedupeByTitle(Ic3Loop(category_mapping, raw_data.els, <<>>)))

(* Table rows (SEC, FinCEN): a row is [tds |-> its td cells], a cell is    *)
(* [text, time, a]: its text, the text of its time element and its first   *)
(* anchor [text, href], each Missing when absent.                          *)

\* tr.find("a"): the first anchor of the row, or Missing
RECURSIVE FirstAnchor(_)
FirstAnchor(tds) ==
    IF tds = <<>> THEN Missing
    ELSE IF Head(tds).a.t # "missing" THEN Head(tds).a ELSE FirstAnchor(Tail(tds))

RECURSIVE ReplaceNewlines(_)
\* s.replace("\n", " ")
ReplaceNewlines(s) ==
    IF s = <<>> THEN <<>>
    ELSE <<IF Head(s) = "\n" THEN " " ELSE Head(s)>> \o ReplaceNewlines(Tail(s))

\* tr.text: the cells' texts, one per line
RowText(tr) == Join(<<"\n">>, [i \in 1..Len(tr.tds) |-> tr.tds[i].text])

\* f"sec-{len(alerts):04d}"
SecAlertId(alerts) == <<"s", "e", "c", "-">> \o Fmt04d(Len(alerts))

SecTitleLimit == 250

\* one row of the SEC loop: [raised, skip, alert]
SecRow(category_mapping, tr, alerts) ==
    LET txt == ReplaceNewlines(Strip(RowText(tr)))
        tds == tr.tds
        skipped == [raised |-> FALSE, alerts |-> <<>>]
    IN
    IF ~(Contains(txt, <<"L", "R", "-">>) \/ Contains(txt, <<"R", "e", "l", "e", "a", "s", "e", " ", "N", "o", ".">>)) THEN skipped
    ELSE IF Len(tds) < 2 THEN skipped
    ELSE IF Strip(tds[1].text) = <<>> THEN skipped
    ELSE LET a == FirstAnchor(tds) IN
         IF a.t = "missing" THEN skipped
         ELSE IF a.href.t = "missing" THEN Raised          \* a["href"]: KeyError
         ELSE
            LET title_text == IF Len(tds) >= 3 THEN Strip(tds[3].text) ELSE Strip(tds[2].text)
                title == <<"S", "E", "C", " ", "L", "i", "t", "i", "g", "a", "t", "i", "o", "n", ":", " ">> \o title_text
                link == IF StartsWith(a.href.s, <<"/">>) THEN <<"h", "t", "t", "p", "s", ":", "/", "/", "w", "w", "w", ".", "s", "e", "c", ".", "g", "o", "v">> \o a.href.s ELSE a.href.s
                category == Str(<<"L", "i", "t", "i", "g", "a", "t", "i", "o", "n", " ", "R", "e", "l", "e", "a", "s", "e">>)
                tp_ids == map_category_to_tps(category_mapping, category)
                severity == HighIfMapped(tp_ids)
            IN Returned(<<RegulatoryAlert(Str(<<"s", "e", "c">>), Str(SecAlertId(alerts)), Str(Prefix(title, SecTitleLimit)),
                                          Str(Strip(tds[1].text)), category, tp_ids, Str(link), Str(severity),
                                          Str(<<"S", "E", "C", " ", "E", "n", "f", "o", "r", "c", "e", "m", "e", "n", "t", " ", "A", "c", "t", "i", "o", "n", " ", "/", " ", "L", "i", "t", "i", "g", "a", "t", "i", "o", "n", " ", "R", "e", "l", "e", "a", "s", "e">>))>>)

RECURSIVE SecLoop(_, _, _)
\* the loop inside try: an exception ends it, the alerts appended so far are kept
SecLoop(category_mapping, rows, alerts) ==
    IF rows = <<>> THEN alerts
    ELSE LET one == SecRow(category_mapping, Head(rows), alerts) IN
         IF one.raised THEN alerts
         ELSE SecLoop(category_mapping, Tail(rows), alerts \o one.alerts)

\* SECSource.parse
SECSource_parse(category_mapping, raw_data) ==
    IF Falsy(raw_data) THEN Returned(<<>>)
    ELSE IF raw_data.t # "html" THEN Returned(<<>>)
    ELSE Returned(SecLoop(category_mapping, raw_data.els, <<>>))

\* f"fincen-{len(alerts):04d}"
FincenAlertId(alerts) == <<"f", "i", "n", "c", "e", "n", "-">> \o Fmt04d(Len(alerts))

FincenRow(category_mapping, tr, alerts) ==
    LET tds == tr.tds
        skipped == [raised |-> FALSE, alerts |-> <<>>]
    IN
    IF Len(tds) < 2 THEN skipped
    ELSE LET date == IF tds[1].time.t = "str" THEN Strip(tds[1].time.s) ELSE Strip(tds[1].text)
             a == tds[2].a
         IN
         IF date = <<>> THEN skipped
         ELSE IF a.t = "missing" THEN skipped
         ELSE IF a.href.t = "missing" THEN Raised          \* a["href"]: KeyError
         ELSE
            LET link == IF StartsWith(a.href.s, <<"/">>) THEN <<"h", "t", "t", "p", "s", ":", "/", "/", "w", "w", "w", ".", "f", "i", "n", "c", "e", "n", ".", "g", "o", "v">> \o a.href.s ELSE a.href.s
                category == Str(<<"A", "d", "v", "i", "s", "o", "r", "y">>)
                tp_ids == map_category_to_tps(category_mapping, category)
                severity == HighIfMapped(tp_ids)
            IN Returned(<<RegulatoryAlert(Str(<<"f", "i", "n", "c", "e", "n">>), Str(FincenAlertId(alerts)), Str(Strip(a.text)),
                                          Str(date), category, tp_ids, Str(link), Str(severity),
                                          Str(<<"F", "i", "n", "C", "E", "N", " ", "A", "d", "v", "i", "s", "o", "r", "y", " ", "N", "o", "t", "i", "f", "i", "c", "a", "t", "i", "o", "n">>))>>)

RECURSIVE FincenLoop(_, _, _)
FincenLoop(category_mapping, rows, alerts) ==
    IF rows = <<>> THEN alerts
    ELSE LET one == FincenRow(category_mapping, Head(rows), alerts) IN
         IF one.raised THEN alerts
         ELSE FincenLoop(category_mapping, Tail(rows), alerts \o one.alerts)

\* FinCENSource.parse
FinCENSource_parse(category_mapping, raw_data) ==
    IF Falsy(raw_data) THEN Returned(<<>>)
    ELSE IF raw_data.t # "html" THEN Returned(<<>>)
    ELSE Returned(FincenLoop(category_mapping, raw_data.els, <<>>))

\* the parse() of the adapter registered under a name (SOURCE_REGISTRY)
Parse(name, category_mapping, raw_data) ==
    CASE name = "cfpb" -> CFPBSource_parse(category_mapping, raw_data)
      [] name = "occ" -> OCCSource_parse(category_mapping, raw_data)
      [] name = "sec" -> SECSource_parse(category_mapping, raw_data)
      [] name = "ofac" -> OFACSource_parse(category_mapping, raw_data)
      [] name = "fincen" -> FinCENSource_parse(category_mapping, raw_data)
      [] name = "fbi_ic3" -> FBIC3Source_parse(category_mapping, raw_data)

-----------------------------------------------------------------------------
(* The upstream content the model draws from: a few items per source,      *)
(* chosen to take every branch of its parse().                             *)

RECURSIVE SeqsUpTo(_, _)
\* the sequences over S of length at most n
SeqsUpTo(S, n) ==
    IF n = 0 THEN {<<>>}
    ELSE LET shorter == SeqsUpTo(S, n - 1) IN
         shorter \cup {Append(q, x) : q \in {r \in shorter : Len(r) = n - 1}, x \in S}

CfpbSrc(id, product, date, issue, narrative) ==
    [t |-> "dict", complaint_id |-> id, product |-> product, date_received |-> date,
     issue |-> issue, complaint_what_happened |-> narrative]
Hit(src) == [t |-> "dict", _source |-> src]

HitMortgage == Hit(CfpbSrc(Str(<<"1">>), Str(<<"M", "o", "r", "t", "g", "a", "g", "e">>), Str(<<"2", "0", "2", "6", "-", "0", "2", "-", "0", "1">>), Str(<<"F", "e", "e">>), Str(<<>>)))
HitLoan == Hit(CfpbSrc(Str(<<"2">>), Str(<<"L", "o", "a", "n">>), Str(<<"2", "0", "2", "6", "-", "0", "2", "-", "1", "0">>), Str(<<"F", "e", "e">>), Str(<<"m", "i", "n", "e">>)))
HitNulls == Hit(CfpbSrc(PyNone, PyNone, Missing, PyNone, Missing))
HitNoSource == Hit(Missing)
HitNullSource == Hit(PyNone)

CfpbDict(hits) == [t |-> "dict", hits |-> hits]
CfpbHitList(q) == CfpbDict(CfpbDict([t |-> "list", items |-> q]))

OfacEntry(uid, first, last, type, programs) ==
    [uid |-> uid, firstName |-> first, lastName |-> last, sdnType |-> type, programList |-> programs]

EntryDoe == OfacEntry(Str(<<"1">>), Str(<<"J", "o", "h", "n">>), Str(<<"D", "O", "E">>), Str(<<"I", "n", "d", "i", "v", "i", "d", "u", "a", "l">>),
                      [t |-> "list", items |-> <<Str(<<"S", "D", "G", "T">>), Str(<<>>)>>])
EntryAcme == OfacEntry(Str(<<" ", "2">>), Missing, Str(<<"A", "C", "M", "E">>), Str(<<"E", "n", "t", "i", "t", "y">>), Missing)
EntryBare == OfacEntry(Missing, Missing, Missing, Missing, [t |-> "list", items |-> <<>>])

OfacDoc(pub, entries) == [t |-> "xml", publshInformation |-> pub, sdnEntry |-> entries]
Published == [t |-> "elem", Publish_Date |-> Str(<<"0", "2", "/", "2", "0", "/", "2", "0", "2", "6">>)]
Garbage == [t |-> "bytes", s |-> <<"<">>]

Anchor(text, href, img, parent) == [text |-> text, href |-> href, img |-> img, parent |-> parent]
Parent(time, date_match) == [t |-> "elem", time |-> time, date_match |-> date_match]

LongText == [i \in 1..(OccTitleLimit + 1) |-> IF i = 1 THEN "B" ELSE "x"]

OccBulletin == Anchor(<<"O", "C", "C", " ", "B", "u", "l", "l", "e", "t", "i", "n", " ", "2", "0", "2", "6", "-", "1">>, <<"/", "b", "u", "l", "l", "e", "t", "i", "n", "/", "1">>, FALSE, Parent(Str(<<" ", "2", "0", "2", "6", "-", "0", "1", "-", "1", "5">>), Missing))
OccEnforcement == Anchor(<<" ", "E", "n", "f", "o", "r", "c", "e", "m", "e", "n", "t", " ", "A", "c", "t", "i", "o", "n", " ">>, <<"h", "t", "t", "p", "s", ":", "/", "/", "o", "c", "c", ".", "g", "o", "v", "/", "B", "u", "l", "l", "e", "t", "i", "n", "-", "2">>, FALSE, Parent(Missing, Str(<<"M", "a", "y", " ", "1", ",", " ", "2", "0", "2", "6">>)))
OccSameTitle == Anchor(<<"O", "C", "C", " ", "B", "u", "l", "l", "e", "t", "i", "n", " ", "2", "0", "2", "6", "-", "1">>, <<"/", "b", "u", "l", "l", "e", "t", "i", "n", "/", "3">>, FALSE, Missing)
OccLong == Anchor(LongText, <<"/", "b", "u", "l", "l", "e", "t", "i", "n", "/", "4">>, FALSE, Parent(Missing, Missing))
OccLogo == Anchor(<<"O", "C", "C", " ", "B", "u", "l", "l", "e", "t", "i", "n", " ", "l", "o", "g", "o">>, <<"/", "b", "u", "l", "l", "e", "t", "i", "n", "/", "5">>, TRUE, Missing)
OccShort == Anchor(<<"B", "u", "l", "l", "e", "t", "i", "n", "s">>, <<"/", "b", "u", "l", "l", "e", "t", "i", "n", "/">>, FALSE, Missing)
OccOther == Anchor(<<"A", "b", "o", "u", "t", " ", "t", "h", "e", " ", "O", "C", "C">>, <<"/", "a", "b", "o", "u", "t">>, FALSE, Missing)

Page(els) == [t |-> "html", els |-> els]
Tables == [t |-> "list", s |-> <<<<<<"C", "a", "t", "e", "g", "o", "r", "y">>, <<"C", "o", "u", "n", "t">>>>, <<<<"f", "r", "a", "u", "d">>, <<"1", "0", "0">>>>>>]

Ic3Anchor(text, href, date_match) == [text |-> text, href |-> href, date_match |-> date_match]

Ic3AlertA == Ic3Anchor(<<"A", "l", "e", "r", "t", " ", "A">>, <<"/", "M", "e", "d", "i", "a", "/", "C", "S", "A", "/", "2", "0", "2", "6", "/", "a", ".", "p", "d", "f">>, Str(<<"T", "h", "u", ",", " ", "1", "9", " ", "F", "e", "b", " ", "2", "0", "2", "6">>))
Ic3SameTitle == Ic3Anchor(<<" ", "A", "l", "e", "r", "t", " ", "A">>, <<"h", "t", "t", "p", "s", ":", "/", "/", "w", "w", "w", ".", "i", "c", "3", ".", "g", "o", "v", "/", "C", "S", "A", "/", "2", "0", "2", "6", "/", "b", ".", "P", "D", "F">>, Missing)
Ic3AlertC == Ic3Anchor(<<"A", "l", "e", "r", "t", " ", "C">>, <<"/", "C", "S", "A", "/", "2", "0", "2", "6", "/", "c", ".", "p", "d", "f">>, Missing)
Ic3Other == Ic3Anchor(<<"H", "o", "m", "e">>, <<"/", "H", "o", "m", "e">>, Missing)

Cell(text, time, a) == [text |-> text, time |-> time, a |-> a]
Link(text, href) == [t |-> "elem", text |-> text, href |-> href]
Row(tds) == [tds |-> tds]

SecXyz == Row(<<Cell(<<"2", "0", "2", "6", "-", "0", "1", "-", "2", "0">>, Missing, Missing), Cell(<<"L", "R", "-", "1">>, Missing, Link(<<"L", "R", "-", "1">>, Str(<<"/", "l", "r", "/", "1">>))),
                Cell(<<"X", "Y", "Z", " ", "C", "o", "r", "p">>, Missing, Missing)>>)
SecSameTitle == Row(<<Cell(<<"2", "0", "2", "6", "-", "0", "2", "-", "0", "5">>, Missing, Missing),
                      Cell(<<"L", "R", "-", "2">>, Missing, Link(<<"L", "R", "-", "2">>, Str(<<"h", "t", "t", "p", "s", ":", "/", "/", "s", "e", "c", ".", "g", "o", "v", "/", "l", "r", "/", "2">>))),
                      Cell(<<"X", "Y", "Z", " ", "C", "o", "r", "p">>, Missing, Missing)>>)
SecTwoCells == Row(<<Cell(<<"2", "0", "2", "6", "-", "0", "3", "-", "0", "1">>, Missing, Missing), Cell(<<"R", "e", "l", "e", "a", "s", "e", " ", "N", "o", ".", " ", "3">>, Missing, Link(<<"3">>, Str(<<"/", "l", "r", "/", "3">>)))>>)
SecNoHref == Row(<<Cell(<<"2", "0", "2", "6", "-", "0", "3", "-", "0", "2">>, Missing, Missing), Cell(<<"L", "R", "-", "4">>, Missing, Link(<<"L", "R", "-", "4">>, Missing))>>)
SecNoDate == Row(<<Cell(<<" ">>, Missing, Missing), Cell(<<"L", "R", "-", "5">>, Missing, Missing)>>)
SecHeader == Row(<<Cell(<<"D", "a", "t", "e">>, Missing, Missing), Cell(<<"R", "e", "s", "p", "o", "n", "d", "e", "n", "t", "s">>, Missing, Missing)>>)

FincenA == Row(<<Cell(<<"0", "1", "/", "0", "2", "/", "2", "0", "2", "6">>, Str(<<"0", "1", "/", "0", "2", "/", "2", "0", "2", "6", " ">>), Missing),
                 Cell(<<"A", "d", "v", "i", "s", "o", "r", "y", " ", "A">>, Missing, Link(<<"A", "d", "v", "i", "s", "o", "r", "y", " ", "A", " ">>, Str(<<"/", "a", "d", "v", "i", "s", "o", "r", "y", "/", "a">>)))>>)
FincenSameTitle == Row(<<Cell(<<" ", "0", "3", "/", "0", "4", "/", "2", "0", "2", "6">>, Missing, Missing),
                         Cell(<<"A", "d", "v", "i", "s", "o", "r", "y", " ", "A">>, Missing, Link(<<"A", "d", "v", "i", "s", "o", "r", "y", " ", "A">>, Str(<<"h", "t", "t", "p", "s", ":", "/", "/", "f", "i", "n", "c", "e", "n", ".", "g", "o", "v", "/", "b">>)))>>)
FincenNoHref == Row(<<Cell(<<"0", "5", "/", "0", "6", "/", "2", "0", "2", "6">>, Missing, Missing), Cell(<<"A", "d", "v", "i", "s", "o", "r", "y", " ", "C">>, Missing, Link(<<"A", "d", "v", "i", "s", "o", "r", "y", " ", "C">>, Missing))>>)
FincenNoDate == Row(<<Cell(<<>>, Missing, Missing), Cell(<<"A", "d", "v", "i", "s", "o", "r", "y", " ", "D">>, Missing, Missing)>>)
FincenHeader == Row(<<Cell(<<"D", "a", "t", "e">>, Missing, Missing)>>)

\* the upstream items a direct parse() call is tried on
AllItems(name) ==
    CASE name = "cfpb" -> {HitMortgage, HitLoan, HitNulls, HitNoSource, HitNullSource}
      [] name = "ofac" -> {EntryDoe, EntryAcme, EntryBare}
      [] name = "occ" -> {OccBulletin, OccEnforcement, OccSameTitle, OccLong, OccLogo, OccShort, OccOther}
      [] name = "sec" -> {SecXyz, SecSameTitle, SecTwoCells, SecNoHref, SecNoDate, SecHeader}
      [] name = "fincen" -> {FincenA, FincenSameTitle, FincenNoHref, FincenNoDate, FincenHeader}
      [] name = "fbi_ic3" -> {Ic3AlertA, Ic3SameTitle, Ic3AlertC, Ic3Other}

\* the upstream items served during a collection run
FeedItems(name) ==
    CASE name = "cfpb" -> {HitMortgage, HitNoSource, HitNullSource}
      [] name = "ofac" -> {EntryDoe, EntryBare}
      [] name = "occ" -> {OccBulletin, OccSameTitle}
      [] name = "sec" -> {SecXyz, SecSameTitle}
      [] name = "fincen" -> {FincenA, FincenNoHref}
      [] name = "fbi_ic3" -> {Ic3AlertA, Ic3AlertC}

\* the raw value that holds the given upstream items
Wrap(name, q) ==
    CASE name = "cfpb" -> CfpbHitList(q)
      [] name = "ofac" -> OfacDoc(Published, q)
      [] OTHER -> Page(q)

\* the empty raw values of the adapters
EmptyRaws == {PyNone, EmptyStr, EmptyList, EmptyBytes}

\* responses without usable content
Malformed(name) ==
    CASE name = "cfpb" -> {CfpbDict(Missing), CfpbDict(PyNone), CfpbDict(CfpbDict(Missing)), CfpbDict(CfpbDict(PyNone))}
      [] name = "ofac" -> {Garbage} \cup {OfacDoc(Missing, q) : q \in SeqsUpTo(AllItems(name), 1)}
      [] OTHER -> {Tables}

\* what fetch() of an adapter returns during a collection run, with at most
\* n upstream items: resp.json() (cfpb), resp.content (ofac), resp.text (the others)
FetchReturns(name, n) ==
    (CASE name = "cfpb" -> {PyNone, CfpbDict(Missing)}
       [] name = "ofac" -> {EmptyBytes, Garbage}
       [] OTHER -> {EmptyStr})
    \cup { Wrap(name, q) : q \in SeqsUpTo(FeedItems(name), n) }

\* what a caller hands to parse() directly
RawValues(name, n) ==
    EmptyRaws \cup Malformed(name) \cup { Wrap(name, q) : q \in SeqsUpTo(AllItems(name), n) }

\* the upstream items of a raw value
Items(raw) ==
    IF raw.t = "html" THEN raw.els
    ELSE IF raw.t = "xml" THEN raw.sdnEntry
    ELSE IF raw.t = "dict" /\ raw.hits.t = "dict" /\ raw.hits.hits.t = "list" THEN raw.hits.hits.items
    ELSE <<>>

-----------------------------------------------------------------------------
(* The configurations the model draws from.                                *)

Categories(name) ==
    CASE name = "cfpb" -> {<<"M", "o", "r", "t", "g", "a", "g", "e">>, <<"L", "o", "a", "n">>}
      [] name = "occ" -> {<<"B", "u", "l", "l", "e", "t", "i", "n">>, <<"E", "n", "f", "o", "r", "c", "e", "m", "e", "n", "t", " ", "A", "c", "t", "i", "o", "n">>}
      [] name = "sec" -> {<<"L", "i", "t", "i", "g", "a", "t", "i", "o", "n", " ", "R", "e", "l", "e", "a", "s", "e">>}
      [] name = "ofac" -> {<<"S", "D", "N", " ", "L", "i", "s", "t", " ", "A", "d", "d", "i", "t", "i", "o", "n">>}
      [] name = "fincen" -> {<<"A", "d", "v", "i", "s", "o", "r", "y">>}
      [] name = "fbi_ic3" -> {<<"I", "n", "d", "u", "s", "t", "r", "y", " ", "A", "l", "e", "r", "t">>}

\* a category_mapping entry: an empty list, or TP ids
TpLists == {<<>>, <<TP1, TP2>>}

\* every category_mapping over the categories of an adapter
Mappings(name) == UNION { [S -> TpLists] : S \in SUBSET Categories(name) }

NoMapping == [c \in {} |-> <<>>]

\* the configuration of the collection runs: one category of every adapter mapped
RunMapping(name) ==
    [c \in Categories(name) \ {<<"L", "o", "a", "n">>, <<"B", "u", "l", "l", "e", "t", "i", "n">>} |-> IF name = "occ" THEN <<TP1>> ELSE <<TP1, TP2>>]

-----------------------------------------------------------------------------
(* regulatory/base.py: run(); fetch_regulatory_data.py: collect_alerts and *)
(* write_csv.                                                              *)

\* fetch() either raises or returns a raw value
FetchRaised == [raised |-> TRUE, raw |-> PyNone]
FetchReturned(raw) == [raised |-> FALSE, raw |-> raw]

\* parse() as run() calls it, after a fetch() that returned
ParseFetched(name, category_mapping, fetched) ==
    IF fetched.raised THEN Returned(<<>>) ELSE Parse(name, category_mapping, fetched.raw)

\* faulty variant: no try/except around fetch and parse
run_Unguarded(name, category_mapping, fetched) ==
    IF fetched.raised THEN Raised ELSE Parse(name, category_mapping, fetched.raw)

\* RegulatorySource.run: try fetch, parse; except Exception: return []
run(name, category_mapping, fetched) ==
    IF fetched.raised THEN Returned(<<>>)
    ELSE IF Parse(name, category_mapping, fetched.raw).raised THEN Returned(<<>>)
    ELSE Returned(Parse(name, category_mapping, fetched.raw).alerts)

\* faulty variant: the new alerts are put in front
ExtendFront(list, alerts) == alerts \o list

\* all_alerts.extend(alerts)
Extend(list, alerts) == list \o alerts

\* what csv.writer puts in a cell: "" for None, the str otherwise
CsvCell(v) == IF v.t = "None" THEN <<>> ELSE v.s

\* writer.writerow(dict(zip(CSV_COLUMNS, alert.to_csv_row())))
CsvRow(alert) == [i \in 1..Len(CSV_COLUMNS) |-> CsvCell(to_csv_row(alert)[i])]

\* faulty variant: the header is written only when there is an alert
write_csv_HeaderIfAny(alerts) ==
    (IF alerts = <<>> THEN <<>> ELSE <<CSV_COLUMNS>>) \o [i \in 1..Len(alerts) |-> CsvRow(alerts[i])]

\* write_csv: the records of the file, header first
write_csv(alerts) == <<CSV_COLUMNS>> \o [i \in 1..Len(alerts) |-> CsvRow(alerts[i])]

NoFile == [exists |-> FALSE, rows |-> <<>>]
File(rows) == [exists |-> TRUE, rows |-> rows]

-----------------------------------------------------------------------------
(* build_database.py: build_regulatory_alerts reads the CSV back.  The     *)
(* database is [alerts |-> the regulatory_alerts table, a function of      *)
(* alert_id; mapping |-> the rows of regulatory_alert_tp_mapping, in       *)
(* insertion order; count |-> the value returned].                         *)

RECURSIVE SplitFrom(_, _, _)
\* the pieces of s between the separators, the current piece being cur
SplitFrom(s, sep, cur) ==
    IF s = <<>> THEN <<cur>>
    ELSE IF Head(s) = sep THEN <<cur>> \o SplitFrom(Tail(s), sep, <<>>)
    ELSE SplitFrom(Tail(s), sep, Append(cur, Head(s)))

\* s.split(sep) for a one-character separator
Split(s, sep) == SplitFrom(s, sep, <<>>)

\* row.get(name, ""): the cell under the header cell of that name
RowGet(header, row, name) ==
    IF \E i \in 1..Len(header) : header[i] = name /\ i <= Len(row)
    THEN row[CHOOSE i \in 1..Len(header) : header[i] = name /\ i <= Len(row)]
    ELSE <<>>

RECURSIVE TpMappingRows(_, _)
\* one (alert_id, tp_id) row per non-empty stripped piece
TpMappingRows(alert_id, pieces) ==
    IF pieces = <<>> THEN <<>>
    ELSE (IF Strip(Head(pieces)) # <<>> THEN <<<<alert_id, Strip(Head(pieces))>>>> ELSE <<>>)
         \o TpMappingRows(alert_id, Tail(pieces))

NoDb == [built |-> FALSE, alerts |-> <<>>, mapping |-> <<>>, count |-> 0]

\* the body of "for row in reader"
IngestRow(d, header, row) ==
    LET alert_id == Strip(RowGet(header, row, <<"a", "l", "e", "r", "t", "_", "i", "d">>))
        fields == [source |-> Strip(RowGet(header, row, <<"s", "o", "u", "r", "c", "e">>)),
                   title |-> Strip(RowGet(header, row, <<"t", "i", "t", "l", "e">>)),
                   date |-> Strip(RowGet(header, row, <<"d", "a", "t", "e">>)),
                   category |-> Strip(RowGet(header, row, <<"c", "a", "t", "e", "g", "o", "r", "y">>)),
                   severity |-> Strip(RowGet(header, row, <<"s", "e", "v", "e", "r", "i", "t", "y">>)),
                   url |-> Strip(RowGet(header, row, <<"u", "r", "l">>)),
                   summary |-> Strip(RowGet(header, row, <<"s", "u", "m", "m", "a", "r", "y">>))]
        tp_ids_raw == Strip(RowGet(header, row, <<"m", "a", "p", "p", "e", "d", "_", "t", "p", "_", "i", "d", "s">>))
    IN
    IF alert_id = <<>> THEN d
    ELSE [built |-> TRUE,
          alerts |-> (alert_id :> fields) @@ d.alerts,
          mapping |-> d.mapping \o (IF tp_ids_raw # <<>>
                                    THEN TpMappingRows(alert_id, Split(tp_ids_raw, "|"))
                                    ELSE <<>>),
          count |-> d.count + 1]

RECURSIVE IngestRows(_, _, _)
IngestRows(d, header, rows) ==
    IF rows = <<>> THEN d ELSE IngestRows(IngestRow(d, header, Head(rows)), header, Tail(rows))

\* build_regulatory_alerts on an existing CSV: the mapping table is cleared,
\* then every row of the reader is ingested
build_regulatory_alerts(d, rows) ==
    IF rows = <<>> THEN [d EXCEPT !.built = TRUE, !.mapping = <<>>, !.count = 0]
    ELSE IngestRows([built |-> TRUE, alerts |-> d.alerts, mapping |-> <<>>, count |-> 0],
                    Head(rows), Tail(rows))

\* the tp_ids build_database stores for an alert, in insertion order
RECURSIVE StoredTpIds(_, _)
StoredTpIds(mapping, alert_id) ==
    IF mapping = <<>> THEN <<>>
    ELSE (IF Head(mapping)[1] = alert_id THEN <<Head(mapping)[2]>> ELSE <<>>)
         \o StoredTpIds(Tail(mapping), alert_id)

\* the alerts write_csv is called on directly: one alert with a list of TP ids
TpIds == {TP1, TP2, <<>>, <<" ">> \o TP2, <<"A", "|", "B">>}

TestAlert(mapped_tp_ids) ==
    RegulatoryAlert(Str(<<"t", "e", "s", "t">>), Str(<<"T", "-", "0", "0", "1">>), Str(<<"T", "e", "s", "t", " ", "A", "l", "e", "r", "t">>), Str(<<"2", "0", "2", "6", "-", "0", "3", "-", "0", "1">>), Str(<<"T", "e", "s", "t">>),
                    mapped_tp_ids, Str(<<>>), Str(<<"h", "i", "g", "h">>), Str(<<>>))

-----------------------------------------------------------------------------
(* ft3_mapper.py: the mapping tables.                                      *)

\* the printable ASCII characters in code order, for sorted() on str (the
\* backquote left out: a TLA+ string cannot hold it)
Ascii ==
    <<" ", "!", "\"", "#", "$", "%", "&", "'", "(", ")", "*", "+", ",", "-", ".", "/",
      "0", "1", "2", "3", "4", "5", "6", "7", "8", "9", ":", ";", "<", "=", ">", "?",
      "@", "A", "B", "C", "D", "E", "F", "G", "H", "I", "J", "K", "L", "M", "N", "O",
      "P", "Q", "R", "S", "T", "U", "V", "W", "X", "Y", "Z", "[", "\\", "]", "^", "_",
      "a", "b", "c", "d", "e", "f", "g", "h", "i", "j", "k", "l", "m", "n", "o",
      "p", "q", "r", "s", "t", "u", "v", "w", "x", "y", "z", "{", "|", "}", "~">>

Ord(c) == CHOOSE i \in 1..Len(Ascii) : Ascii[i] = c

RECURSIVE StrLess(_, _)
\* a < b for two str
StrLess(a, b) ==
    IF b = <<>> THEN FALSE
    ELSE IF a = <<>> THEN TRUE
    ELSE IF Head(a) = Head(b) THEN StrLess(Tail(a), Tail(b))
    ELSE Ord(Head(a)) < Ord(Head(b))

RECURSIVE Sorted(_)
\* sorted(S) for a set of str
Sorted(S) ==
    IF S = {} THEN <<>>
    ELSE LET least == CHOOSE x \in S : \A y \in S \ {x} : StrLess(x, y)
         IN <<least>> \o Sorted(S \ {least})

UpperChar(c) ==
    IF \E i \in 1..26 : LowerOf[i] = c
    THEN Upper[CHOOSE i \in 1..26 : LowerOf[i] = c]
    ELSE c

\* s.upper()
ToUpper(s) == [i \in 1..Len(s) |-> UpperChar(s[i])]

\* s.replace(a, b) for one-character a and b
Replace(s, a, b) == [i \in 1..Len(s) |-> IF s[i] = a THEN b ELSE s[i]]

\* the set of the elements of a list
Range(q) == { q[i] : i \in 1..Len(q) }

\* CFPF phase -> FT3 tactic IDs
CFPF_TO_FT3_TACTICS ==
       (<<"P", "1">> :> <<<<"F", "T", "A", "0", "0", "1">>, <<"F", "T", "A", "0", "0", "2">>>>)
    @@ (<<"P", "2">> :> <<<<"F", "T", "A", "0", "0", "3">>, <<"F", "T", "A", "0", "0", "4">>>>)
    @@ (<<"P", "3">> :> <<<<"F", "T", "A", "0", "0", "5">>, <<"F", "T", "A", "0", "0", "6">>>>)
    @@ (<<"P", "4">> :> <<<<"F", "T", "A", "0", "0", "7">>, <<"F", "T", "A", "0", "0", "9">>>>)
    @@ (<<"P", "5">> :> <<<<"F", "T", "A", "0", "1", "0">>>>)

\* Group-IB stage name -> FT3 tactic ID
GROUPIB_TO_FT3_TACTIC ==
       (<<"R", "e", "c", "o", "n", "n", "a", "i", "s", "s", "a", "n", "c", "e">> :> <<"F", "T", "A", "0", "0", "1">>)
    @@ (<<"R", "e", "s", "o", "u", "r", "c", "e", " ", "D", "e", "v", "e", "l", "o", "p", "m", "e", "n", "t">> :> <<"F", "T", "A", "0", "0", "2">>)
    @@ (<<"I", "n", "i", "t", "i", "a", "l", " ", "A", "c", "c", "e", "s", "s">> :> <<"F", "T", "A", "0", "0", "3">>)
    @@ (<<"T", "r", "u", "s", "t", " ", "A", "b", "u", "s", "e">> :> <<"F", "T", "A", "0", "0", "3">>)
    @@ (<<"E", "n", "d", "-", "u", "s", "e", "r", " ", "I", "n", "t", "e", "r", "a", "c", "t", "i", "o", "n">> :> <<"F", "T", "A", "0", "0", "3">>)
    @@ (<<"C", "r", "e", "d", "e", "n", "t", "i", "a", "l", " ", "A", "c", "c", "e", "s", "s">> :> <<"F", "T", "A", "0", "0", "3">>)
    @@ (<<"A", "c", "c", "o", "u", "n", "t", " ", "A", "c", "c", "e", "s", "s">> :> <<"F", "T", "A", "0", "0", "3">>)
    @@ (<<"E", "x", "e", "c", "u", "t", "i", "o", "n">> :> <<"F", "T", "A", "0", "0", "4">>)
    @@ (<<"D", "e", "f", "e", "n", "c", "e", " ", "E", "v", "a", "s", "i", "o", "n">> :> <<"F", "T", "A", "0", "0", "5">>)
    @@ (<<"D", "e", "f", "e", "n", "s", "e", " ", "E", "v", "a", "s", "i", "o", "n">> :> <<"F", "T", "A", "0", "0", "5">>)
    @@ (<<"P", "e", "r", "f", "o", "r", "m", " ", "F", "r", "a", "u", "d">> :> <<"F", "T", "A", "0", "0", "7">>)
    @@ (<<"M", "o", "n", "e", "t", "i", "z", "a", "t", "i", "o", "n">> :> <<"F", "T", "A", "0", "1", "0">>)
    @@ (<<"L", "a", "u", "n", "d", "e", "r", "i", "n", "g">> :> <<"F", "T", "A", "0", "1", "0">>)

\* fraud-type keyword -> FT3 technique search terms
FRAUD_TYPE_KEYWORDS ==
       (<<"a", "c", "c", "o", "u", "n", "t", "-", "t", "a", "k", "e", "o", "v", "e", "r">> :>
          <<<<"a", "c", "c", "o", "u", "n", "t", " ", "t", "a", "k", "e", "o", "v", "e", "r">>,
            <<"c", "r", "e", "d", "e", "n", "t", "i", "a", "l">>,
            <<"p", "a", "s", "s", "w", "o", "r", "d">>,
            <<"l", "o", "g", "i", "n">>,
            <<"s", "e", "s", "s", "i", "o", "n">>,
            <<"e", "x", "p", "o", "s", "e", "d", " ", "c", "r", "e", "d", "e", "n", "t", "i", "a", "l">>,
            <<"p", "a", "s", "s", "w", "o", "r", "d", " ", "r", "e", "s", "e", "t">>>>)
    @@ (<<"v", "i", "s", "h", "i", "n", "g">> :>
          <<<<"p", "h", "i", "s", "h", "i", "n", "g">>,
            <<"s", "o", "c", "i", "a", "l", " ", "e", "n", "g", "i", "n", "e", "e", "r", "i", "n", "g">>,
            <<"p", "h", "o", "n", "e">>,
            <<"v", "o", "i", "c", "e">>,
            <<"i", "m", "p", "e", "r", "s", "o", "n", "a", "t">>>>)
    @@ (<<"w", "i", "r", "e", "-", "f", "r", "a", "u", "d">> :>
          <<<<"w", "i", "r", "e">>,
            <<"t", "r", "a", "n", "s", "f", "e", "r">>,
            <<"p", "a", "y", "m", "e", "n", "t">>,
            <<"t", "r", "a", "n", "s", "a", "c", "t", "i", "o", "n">>,
            <<"f", "r", "a", "u", "d", "u", "l", "e", "n", "t", " ", "t", "r", "a", "n", "s", "a", "c", "t", "i", "o", "n">>>>)
    @@ (<<"m", "a", "l", "v", "e", "r", "t", "i", "s", "i", "n", "g">> :>
          <<<<"m", "a", "l", "v", "e", "r", "t", "i", "s", "i", "n", "g">>,
            <<"a", "d", " ", "f", "r", "a", "u", "d">>,
            <<"a", "d", "v", "e", "r", "t", "i", "s", "i", "n", "g">>>>)
    @@ (<<"B", "E", "C">> :>
          <<<<"b", "u", "s", "i", "n", "e", "s", "s", " ", "e", "m", "a", "i", "l">>,
            <<"e", "m", "a", "i", "l", " ", "c", "o", "m", "p", "r", "o", "m", "i", "s", "e">>,
            <<"e", "m", "a", "i", "l", " ", "a", "c", "c", "o", "u", "n", "t">>,
            <<"s", "p", "e", "a", "r", "p", "h", "i", "s", "h", "i", "n", "g">>,
            <<"i", "m", "p", "e", "r", "s", "o", "n", "a", "t">>>>)
    @@ (<<"b", "u", "s", "i", "n", "e", "s", "s", "-", "e", "m", "a", "i", "l", "-", "c", "o", "m", "p", "r", "o", "m", "i", "s", "e">> :>
          <<<<"b", "u", "s", "i", "n", "e", "s", "s", " ", "e", "m", "a", "i", "l">>,
            <<"e", "m", "a", "i", "l", " ", "c", "o", "m", "p", "r", "o", "m", "i", "s", "e">>,
            <<"e", "m", "a", "i", "l", " ", "a", "c", "c", "o", "u", "n", "t">>,
            <<"s", "p", "e", "a", "r", "p", "h", "i", "s", "h", "i", "n", "g">>,
            <<"i", "m", "p", "e", "r", "s", "o", "n", "a", "t">>>>)
    @@ (<<"i", "n", "v", "o", "i", "c", "e", "-", "f", "r", "a", "u", "d">> :>
          <<<<"i", "n", "v", "o", "i", "c", "e">>,
            <<"p", "a", "y", "m", "e", "n", "t">>,
            <<"b", "i", "l", "l", "i", "n", "g">>,
            <<"f", "a", "l", "s", "i", "f", "y", "i", "n", "g">>>>)
    @@ (<<"p", "a", "y", "m", "e", "n", "t", "-", "d", "i", "v", "e", "r", "s", "i", "o", "n">> :>
          <<<<"p", "a", "y", "m", "e", "n", "t">>,
            <<"d", "i", "v", "e", "r", "s", "i", "o", "n">>,
            <<"r", "e", "d", "i", "r", "e", "c", "t">>,
            <<"w", "i", "r", "e">>,
            <<"t", "r", "a", "n", "s", "f", "e", "r">>>>)
    @@ (<<"s", "y", "n", "t", "h", "e", "t", "i", "c", "-", "i", "d", "e", "n", "t", "i", "t", "y">> :>
          <<<<"s", "y", "n", "t", "h", "e", "t", "i", "c">>,
            <<"i", "d", "e", "n", "t", "i", "t", "y">>,
            <<"f", "a", "k", "e">>,
            <<"f", "a", "b", "r", "i", "c", "a", "t">>,
            <<"f", "a", "l", "s", "i", "f", "y", "i", "n", "g">>,
            <<"i", "d", "e", "n", "t", "i", "t", "y", " ", "d", "o", "c", "u", "m", "e", "n", "t">>,
            <<"e", "s", "t", "a", "b", "l", "i", "s", "h", " ", "a", "c", "c", "o", "u", "n", "t">>>>)
    @@ (<<"n", "e", "w", "-", "a", "c", "c", "o", "u", "n", "t", "-", "f", "r", "a", "u", "d">> :>
          <<<<"n", "e", "w", " ", "a", "c", "c", "o", "u", "n", "t">>,
            <<"a", "c", "c", "o", "u", "n", "t", " ", "o", "p", "e", "n">>,
            <<"e", "s", "t", "a", "b", "l", "i", "s", "h", " ", "a", "c", "c", "o", "u", "n", "t">>,
            <<"f", "a", "k", "e", " ", "m", "e", "r", "c", "h", "a", "n", "t">>,
            <<"a", "p", "p", "l", "i", "c", "a", "t", "i", "o", "n">>>>)
    @@ (<<"a", "p", "p", "l", "i", "c", "a", "t", "i", "o", "n", "-", "f", "r", "a", "u", "d">> :>
          <<<<"a", "p", "p", "l", "i", "c", "a", "t", "i", "o", "n">>,
            <<"f", "a", "l", "s", "i", "f", "y">>,
            <<"d", "o", "c", "u", "m", "e", "n", "t">>,
            <<"i", "d", "e", "n", "t", "i", "t", "y">>>>)
    @@ (<<"p", "a", "y", "r", "o", "l", "l", "-", "d", "i", "v", "e", "r", "s", "i", "o", "n">> :>
          <<<<"p", "a", "y", "r", "o", "l", "l">>,
            <<"d", "i", "v", "e", "r", "s", "i", "o", "n">>,
            <<"d", "i", "r", "e", "c", "t", " ", "d", "e", "p", "o", "s", "i", "t">>,
            <<"p", "a", "y", "m", "e", "n", "t">>,
            <<"a", "c", "c", "o", "u", "n", "t", " ", "m", "a", "n", "i", "p", "u", "l", "a", "t", "i", "o", "n">>>>)
    @@ (<<"p", "h", "i", "s", "h", "i", "n", "g">> :>
          <<<<"p", "h", "i", "s", "h", "i", "n", "g">>,
            <<"s", "o", "c", "i", "a", "l", " ", "e", "n", "g", "i", "n", "e", "e", "r", "i", "n", "g">>,
            <<"c", "r", "e", "d", "e", "n", "t", "i", "a", "l">>,
            <<"s", "p", "e", "a", "r", "p", "h", "i", "s", "h", "i", "n", "g">>>>)
    @@ (<<"p", "r", "e", "m", "i", "u", "m", "-", "d", "i", "v", "e", "r", "s", "i", "o", "n">> :>
          <<<<"p", "r", "e", "m", "i", "u", "m">>,
            <<"d", "i", "v", "e", "r", "s", "i", "o", "n">>,
            <<"i", "n", "s", "u", "r", "a", "n", "c", "e">>,
            <<"p", "a", "y", "m", "e", "n", "t">>,
            <<"a", "c", "c", "o", "u", "n", "t", " ", "m", "a", "n", "i", "p", "u", "l", "a", "t", "i", "o", "n">>>>)
    @@ (<<"i", "m", "p", "e", "r", "s", "o", "n", "a", "t", "i", "o", "n">> :>
          <<<<"i", "m", "p", "e", "r", "s", "o", "n", "a", "t">>,
            <<"i", "d", "e", "n", "t", "i", "t", "y", " ", "t", "h", "e", "f", "t">>,
            <<"f", "a", "k", "e">>,
            <<"s", "o", "c", "i", "a", "l", " ", "m", "e", "d", "i", "a", " ", "a", "t", "t", "a", "c", "k">>,
            <<"w", "e", "b", "s", "i", "t", "e", " ", "c", "l", "o", "n", "i", "n", "g">>>>)
    @@ (<<"d", "e", "e", "p", "f", "a", "k", "e">> :>
          <<<<"d", "e", "e", "p", "f", "a", "k", "e">>,
            <<"s", "y", "n", "t", "h", "e", "t", "i", "c">>,
            <<"i", "m", "p", "e", "r", "s", "o", "n", "a", "t">>,
            <<"i", "d", "e", "n", "t", "i", "t", "y">>,
            <<"f", "a", "l", "s", "i", "f", "y", "i", "n", "g">>,
            <<"v", "o", "i", "c", "e">>>>)
    @@ (<<"c", "r", "y", "p", "t", "o", "-", "l", "a", "u", "n", "d", "e", "r", "i", "n", "g">> :>
          <<<<"c", "r", "y", "p", "t", "o">>,
            <<"l", "a", "u", "n", "d", "e", "r", "i", "n", "g">>,
            <<"c", "a", "s", "h", "-", "o", "u", "t">>,
            <<"s", "h", "e", "l", "l">>,
            <<"s", "c", "h", "e", "d", "u", "l", "e", "d", " ", "t", "r", "a", "n", "s", "f", "e", "r">>,
            <<"p", "a", "y", "o", "u", "t">>>>)
    @@ (<<"c", "h", "e", "c", "k", "-", "f", "r", "a", "u", "d">> :>
          <<<<"c", "h", "e", "c", "k">>,
            <<"d", "e", "p", "o", "s", "i", "t">>,
            <<"d", "o", "c", "u", "m", "e", "n", "t">>,
            <<"f", "a", "l", "s", "i", "f", "y">>,
            <<"f", "a", "b", "r", "i", "c", "a", "t">>>>)
    @@ (<<"f", "r", "a", "u", "d", "u", "l", "e", "n", "t", "-", "c", "l", "a", "i", "m">> :>
          <<<<"c", "l", "a", "i", "m">>,
            <<"f", "r", "a", "u", "d", "u", "l", "e", "n", "t">>,
            <<"b", "i", "l", "l", "i", "n", "g">>,
            <<"d", "o", "c", "u", "m", "e", "n", "t">>,
            <<"f", "a", "l", "s", "i", "f", "y">>>>)
    @@ (<<"d", "i", "s", "a", "b", "i", "l", "i", "t", "y", "-", "f", "r", "a", "u", "d">> :>
          <<<<"d", "i", "s", "a", "b", "i", "l", "i", "t", "y">>,
            <<"i", "n", "s", "u", "r", "a", "n", "c", "e">>,
            <<"c", "l", "a", "i", "m">>,
            <<"f", "r", "a", "u", "d", "u", "l", "e", "n", "t">>,
            <<"d", "o", "c", "u", "m", "e", "n", "t">>>>)
    @@ (<<"p", "r", "o", "v", "i", "d", "e", "r", "-", "f", "r", "a", "u", "d">> :>
          <<<<"p", "r", "o", "v", "i", "d", "e", "r">>,
            <<"b", "i", "l", "l", "i", "n", "g">>,
            <<"c", "l", "a", "i", "m">>,
            <<"f", "r", "a", "u", "d", "u", "l", "e", "n", "t">>,
            <<"u", "p", "c", "o", "d", "i", "n", "g">>>>)
    @@ (<<"r", "o", "m", "a", "n", "c", "e", "-", "s", "c", "a", "m">> :>
          <<<<"r", "o", "m", "a", "n", "c", "e">>,
            <<"s", "o", "c", "i", "a", "l", " ", "e", "n", "g", "i", "n", "e", "e", "r", "i", "n", "g">>,
            <<"s", "o", "c", "i", "a", "l", " ", "m", "e", "d", "i", "a">>,
            <<"t", "r", "u", "s", "t">>,
            <<"i", "m", "p", "e", "r", "s", "o", "n", "a", "t">>>>)
    @@ (<<"m", "o", "n", "e", "y", "-", "m", "u", "l", "e">> :>
          <<<<"m", "u", "l", "e">>,
            <<"m", "o", "n", "e", "y">>,
            <<"l", "a", "u", "n", "d", "e", "r", "i", "n", "g">>,
            <<"c", "a", "s", "h", "-", "o", "u", "t">>,
            <<"s", "c", "h", "e", "d", "u", "l", "e", "d", " ", "t", "r", "a", "n", "s", "f", "e", "r">>>>)
    @@ (<<"c", "r", "e", "d", "e", "n", "t", "i", "a", "l", "-", "s", "t", "u", "f", "f", "i", "n", "g">> :>
          <<<<"c", "r", "e", "d", "e", "n", "t", "i", "a", "l">>,
            <<"s", "t", "u", "f", "f", "i", "n", "g">>,
            <<"c", "r", "e", "d", "e", "n", "t", "i", "a", "l", " ", "d", "u", "m", "p">>,
            <<"a", "c", "c", "o", "u", "n", "t", " ", "t", "a", "k", "e", "o", "v", "e", "r">>,
            <<"e", "n", "u", "m", "e", "r", "a", "t", "i", "o", "n">>>>)
    @@ (<<"i", "n", "s", "i", "d", "e", "r", "-", "t", "h", "r", "e", "a", "t">> :>
          <<<<"i", "n", "s", "i", "d", "e", "r">>,
            <<"i", "n", "t", "e", "r", "n", "a", "l">>,
            <<"a", "c", "c", "e", "s", "s">>,
            <<"d", "a", "t", "a", " ", "e", "x", "f", "i", "l", "t", "r", "a", "t", "i", "o", "n">>,
            <<"a", "c", "c", "o", "u", "n", "t", " ", "m", "a", "n", "i", "p", "u", "l", "a", "t", "i", "o", "n">>,
            <<"c", "r", "o", "s", "s", " ", "a", "c", "c", "o", "u", "n", "t">>>>)
    @@ (<<"c", "o", "l", "l", "u", "s", "i", "o", "n">> :>
          <<<<"c", "o", "l", "l", "u", "s", "i", "o", "n">>,
            <<"i", "n", "s", "i", "d", "e", "r">>,
            <<"i", "n", "t", "e", "r", "n", "a", "l">>,
            <<"a", "c", "c", "o", "u", "n", "t", " ", "m", "a", "n", "i", "p", "u", "l", "a", "t", "i", "o", "n">>>>)
    @@ (<<"d", "a", "t", "a", "-", "t", "h", "e", "f", "t">> :>
          <<<<"d", "a", "t", "a">>,
            <<"e", "x", "f", "i", "l", "t", "r", "a", "t", "i", "o", "n">>,
            <<"c", "o", "l", "l", "e", "c", "t", "i", "o", "n">>,
            <<"t", "h", "e", "f", "t">>>>)
    @@ (<<"i", "d", "e", "n", "t", "i", "t", "y", "-", "t", "h", "e", "f", "t">> :>
          <<<<"i", "d", "e", "n", "t", "i", "t", "y", " ", "t", "h", "e", "f", "t">>,
            <<"i", "d", "e", "n", "t", "i", "t", "y">>,
            <<"f", "a", "l", "s", "i", "f", "y", "i", "n", "g", " ", "i", "d", "e", "n", "t", "i", "t", "y">>,
            <<"d", "o", "c", "u", "m", "e", "n", "t">>,
            <<"c", "r", "e", "d", "e", "n", "t", "i", "a", "l">>>>)
    @@ (<<"a", "d", "v", "a", "n", "c", "e", "-", "f", "e", "e", "-", "f", "r", "a", "u", "d">> :>
          <<<<"a", "d", "v", "a", "n", "c", "e", " ", "f", "e", "e">>,
            <<"f", "e", "e">>,
            <<"p", "a", "y", "m", "e", "n", "t">>,
            <<"s", "o", "c", "i", "a", "l", " ", "e", "n", "g", "i", "n", "e", "e", "r", "i", "n", "g">>>>)
    @@ (<<"f", "i", "r", "s", "t", "-", "p", "a", "r", "t", "y", "-", "f", "r", "a", "u", "d">> :>
          <<<<"f", "i", "r", "s", "t", " ", "p", "a", "r", "t", "y">>,
            <<"b", "u", "s", "t", "-", "o", "u", "t">>,
            <<"c", "h", "u", "r", "n", "i", "n", "g">>,
            <<"d", "i", "s", "p", "u", "t", "e">>,
            <<"r", "e", "f", "u", "n", "d">>,
            <<"p", "o", "l", "i", "c", "y", " ", "a", "b", "u", "s", "e">>>>)
    @@ (<<"b", "u", "s", "t", "-", "o", "u", "t">> :>
          <<<<"b", "u", "s", "t", "-", "o", "u", "t">>,
            <<"b", "u", "s", "t", " ", "o", "u", "t">>,
            <<"c", "h", "u", "r", "n", "i", "n", "g">>,
            <<"d", "i", "s", "p", "u", "t", "e">>,
            <<"c", "r", "e", "d", "i", "t">>,
            <<"r", "e", "f", "u", "n", "d">>>>)
    @@ (<<"i", "n", "v", "e", "s", "t", "m", "e", "n", "t", "-", "s", "c", "a", "m">> :>
          <<<<"i", "n", "v", "e", "s", "t", "m", "e", "n", "t">>,
            <<"s", "c", "a", "m">>,
            <<"s", "o", "c", "i", "a", "l", " ", "e", "n", "g", "i", "n", "e", "e", "r", "i", "n", "g">>,
            <<"f", "r", "a", "u", "d", "u", "l", "e", "n", "t", " ", "p", "u", "r", "c", "h", "a", "s", "e">>,
            <<"w", "i", "r", "e">>>>)
    @@ (<<"s", "o", "c", "i", "a", "l", "-", "e", "n", "g", "i", "n", "e", "e", "r", "i", "n", "g">> :>
          <<<<"s", "o", "c", "i", "a", "l", " ", "e", "n", "g", "i", "n", "e", "e", "r", "i", "n", "g">>,
            <<"p", "h", "i", "s", "h", "i", "n", "g">>,
            <<"i", "m", "p", "e", "r", "s", "o", "n", "a", "t">>,
            <<"t", "r", "u", "s", "t">>,
            <<"s", "p", "e", "a", "r", "p", "h", "i", "s", "h", "i", "n", "g">>>>)
    @@ (<<"a", "u", "t", "h", "o", "r", "i", "z", "e", "d", "-", "p", "u", "s", "h", "-", "p", "a", "y", "m", "e", "n", "t">> :>
          <<<<"a", "u", "t", "h", "o", "r", "i", "z", "e", "d", " ", "p", "u", "s", "h">>,
            <<"p", "a", "y", "m", "e", "n", "t">>,
            <<"w", "i", "r", "e">>,
            <<"t", "r", "a", "n", "s", "f", "e", "r">>,
            <<"s", "o", "c", "i", "a", "l", " ", "e", "n", "g", "i", "n", "e", "e", "r", "i", "n", "g">>>>)
    @@ (<<"d", "o", "c", "u", "m", "e", "n", "t", "a", "r", "y", "-", "f", "r", "a", "u", "d">> :>
          <<<<"d", "o", "c", "u", "m", "e", "n", "t">>,
            <<"f", "a", "l", "s", "i", "f", "y">>,
            <<"i", "d", "e", "n", "t", "i", "t", "y", " ", "d", "o", "c", "u", "m", "e", "n", "t">>,
            <<"f", "a", "k", "e">>,
            <<"f", "a", "b", "r", "i", "c", "a", "t">>>>)
    @@ (<<"l", "o", "a", "n", "-", "f", "r", "a", "u", "d">> :>
          <<<<"l", "o", "a", "n">>,
            <<"a", "p", "p", "l", "i", "c", "a", "t", "i", "o", "n">>,
            <<"f", "a", "l", "s", "i", "f", "y">>,
            <<"d", "o", "c", "u", "m", "e", "n", "t">>,
            <<"i", "d", "e", "n", "t", "i", "t", "y">>>>)
    @@ (<<"v", "e", "n", "d", "o", "r", "-", "i", "m", "p", "e", "r", "s", "o", "n", "a", "t", "i", "o", "n">> :>
          <<<<"v", "e", "n", "d", "o", "r">>,
            <<"i", "m", "p", "e", "r", "s", "o", "n", "a", "t">>,
            <<"s", "u", "p", "p", "l", "y", " ", "c", "h", "a", "i", "n">>,
            <<"b", "u", "s", "i", "n", "e", "s", "s", " ", "e", "m", "a", "i", "l">>,
            <<"i", "n", "v", "o", "i", "c", "e">>>>)
    @@ (<<"h", "e", "a", "l", "t", "h", "c", "a", "r", "e", "-", "f", "r", "a", "u", "d">> :>
          <<<<"h", "e", "a", "l", "t", "h", "c", "a", "r", "e">>,
            <<"b", "i", "l", "l", "i", "n", "g">>,
            <<"c", "l", "a", "i", "m">>,
            <<"f", "a", "l", "s", "i", "f", "y">>,
            <<"p", "r", "o", "v", "i", "d", "e", "r">>,
            <<"u", "p", "c", "o", "d", "i", "n", "g">>>>)
    @@ (<<"p", "h", "a", "n", "t", "o", "m", "-", "b", "i", "l", "l", "i", "n", "g">> :>
          <<<<"p", "h", "a", "n", "t", "o", "m">>,
            <<"b", "i", "l", "l", "i", "n", "g">>,
            <<"c", "l", "a", "i", "m">>,
            <<"f", "r", "a", "u", "d", "u", "l", "e", "n", "t">>,
            <<"f", "a", "l", "s", "i", "f", "y">>>>)
    @@ (<<"u", "p", "c", "o", "d", "i", "n", "g">> :>
          <<<<"u", "p", "c", "o", "d", "i", "n", "g">>,
            <<"b", "i", "l", "l", "i", "n", "g">>,
            <<"c", "l", "a", "i", "m">>,
            <<"f", "r", "a", "u", "d", "u", "l", "e", "n", "t">>>>)
    @@ (<<"b", "e", "n", "e", "f", "i", "t", "-", "f", "r", "a", "u", "d">> :>
          <<<<"b", "e", "n", "e", "f", "i", "t">>,
            <<"g", "o", "v", "e", "r", "n", "m", "e", "n", "t">>,
            <<"c", "l", "a", "i", "m">>,
            <<"i", "d", "e", "n", "t", "i", "t", "y">>,
            <<"f", "r", "a", "u", "d", "u", "l", "e", "n", "t">>>>)
    @@ (<<"t", "a", "x", "-", "f", "r", "a", "u", "d">> :>
          <<<<"t", "a", "x">>,
            <<"f", "r", "a", "u", "d", "u", "l", "e", "n", "t">>,
            <<"i", "d", "e", "n", "t", "i", "t", "y">>,
            <<"d", "o", "c", "u", "m", "e", "n", "t">>,
            <<"f", "a", "l", "s", "i", "f", "y">>>>)
    @@ (<<"m", "a", "l", "w", "a", "r", "e">> :>
          <<<<"m", "a", "l", "w", "a", "r", "e">>,
            <<"t", "r", "o", "j", "a", "n">>,
            <<"e", "x", "e", "c", "u", "t", "i", "o", "n">>,
            <<"h", "i", "j", "a", "c", "k">>,
            <<"r", "e", "s", "o", "u", "r", "c", "e", " ", "h", "i", "j", "a", "c", "k", "i", "n", "g">>>>)
    @@ (<<"u", "n", "a", "u", "t", "h", "o", "r", "i", "z", "e", "d", "-", "t", "r", "a", "n", "s", "a", "c", "t", "i", "o", "n">> :>
          <<<<"u", "n", "a", "u", "t", "h", "o", "r", "i", "z", "e", "d">>,
            <<"t", "r", "a", "n", "s", "a", "c", "t", "i", "o", "n">>,
            <<"f", "r", "a", "u", "d", "u", "l", "e", "n", "t", " ", "t", "r", "a", "n", "s", "a", "c", "t", "i", "o", "n">>,
            <<"a", "c", "c", "o", "u", "n", "t", " ", "t", "a", "k", "e", "o", "v", "e", "r">>>>)

-----------------------------------------------------------------------------
(* ft3_mapper.py: the mapping logic.  A header (meta) is a record with the *)
(* keys the mapper reads: id, cfpf_phases, groupib_stages, fraud_types,    *)
(* ft3_tactics, each a Python value or Missing; a YAML list is             *)
(* [t |-> "list", items |-> its scalars].  A technique of the catalog is   *)
(* [id, name, description, tactics]; description and tactics may be        *)
(* Missing.  Scores are whole numbers (sums of 3.0 and 1.0).               *)

\* [str(p) for p in v] if isinstance(v, list) else []
StrList(v) ==
    IF v.t = "list" THEN [i \in 1..Len(v.items) |-> PyStr(v.items[i]).s] ELSE <<>>

\* Signal 1: map CFPF phases to FT3 tactic IDs
map_cfpf_to_tactics(cfpf_phases) ==
    UNION { IF ToUpper(Strip(cfpf_phases[i])) \in DOMAIN CFPF_TO_FT3_TACTICS
            THEN Range(CFPF_TO_FT3_TACTICS[ToUpper(Strip(cfpf_phases[i]))])
            ELSE {} : i \in 1..Len(cfpf_phases) }

\* Signal 2: map Group-IB stages to FT3 tactic IDs
map_groupib_to_tactics(groupib_stages) ==
    UNION { IF Strip(groupib_stages[i]) \in DOMAIN GROUPIB_TO_FT3_TACTIC
            THEN {GROUPIB_TO_FT3_TACTIC[Strip(groupib_stages[i])]}
            ELSE {} : i \in 1..Len(groupib_stages) }

RECURSIVE AllTerms(_)
\* the search terms of the fraud types, in order
AllTerms(fraud_types) ==
    IF fraud_types = <<>> THEN <<>>
    ELSE LET ft_key == Lower(Strip(Head(fraud_types))) IN
         (IF ft_key \in DOMAIN FRAUD_TYPE_KEYWORDS
          THEN FRAUD_TYPE_KEYWORDS[ft_key]
          ELSE <<Replace(ft_key, "-", " ")>>) \o AllTerms(Tail(fraud_types))

NameScore == 3
DescScore == 1

RECURSIVE ScoreLoop(_, _, _, _, _)
\* for term in all_terms: the score of one technique
ScoreLoop(terms, tech_name, searchable, matched_terms, score) ==
    IF terms = <<>> THEN score
    ELSE LET term_lower == Lower(Head(terms)) IN
         IF term_lower \in matched_terms
         THEN ScoreLoop(Tail(terms), tech_name, searchable, matched_terms, score)
         ELSE IF Contains(tech_name, term_lower)
         THEN ScoreLoop(Tail(terms), tech_name, searchable, matched_terms \cup {term_lower}, score + NameScore)
         ELSE IF Contains(searchable, term_lower)
         THEN ScoreLoop(Tail(terms), tech_name, searchable, matched_terms \cup {term_lower}, score + DescScore)
         ELSE ScoreLoop(Tail(terms), tech_name, searchable, matched_terms, score)

TechScore(all_terms, tech) ==
    LET tech_name == Lower(tech.name.s)
        tech_desc == Lower(Get(tech.description, Str(<<>>)).s)
    IN ScoreLoop(all_terms, tech_name, tech_name \o <<" ">> \o tech_desc, {}, 0)

RECURSIVE ScoredLoop(_, _)
\* for tech in techniques: (id, name, score) of those that score
ScoredLoop(all_terms, techniques) ==
    IF techniques = <<>> THEN <<>>
    ELSE LET tech == Head(techniques)
             score == TechScore(all_terms, tech)
         IN (IF score > 0 THEN <<[id |-> tech.id, name |-> tech.name.s, score |-> score]>> ELSE <<>>)
            \o ScoredLoop(all_terms, Tail(techniques))

RECURSIVE InsertByScore(_, _)
\* x put behind every element that does not score less
InsertByScore(sorted, x) ==
    IF sorted = <<>> THEN <<x>>
    ELSE IF Head(sorted).score >= x.score THEN <<Head(sorted)>> \o InsertByScore(Tail(sorted), x)
    ELSE <<x>> \o sorted

RECURSIVE SortByScore(_, _)
\* scored.sort(key=score, reverse=True): stable, highest score first
SortByScore(scored, sorted) ==
    IF scored = <<>> THEN sorted
    ELSE SortByScore(Tail(scored), InsertByScore(sorted, Head(scored)))

\* Signal 3: match fraud_types keywords against technique names and descriptions
map_fraud_types_to_techniques(fraud_types, techniques) ==
    LET all_terms == AllTerms(fraud_types) IN
    IF all_terms = <<>> THEN <<>>
    ELSE SortByScore(ScoredLoop(all_terms, techniques), <<>>)

\* faulty variant: every candidate counts, not every signal
determine_confidence_ByCandidates(cfpf_tactics, groupib_tactics, technique_matches) ==
    LET candidates == Cardinality(cfpf_tactics) + Cardinality(groupib_tactics) + Len(technique_matches)
    IN IF candidates >= 3 THEN "high"
       ELSE IF candidates >= 2 THEN "medium"
       ELSE "low"

\* determine_confidence: the number of signals that contribute
determine_confidence(cfpf_tactics, groupib_tactics, technique_matches) ==
    LET signals_active == (IF cfpf_tactics # {} THEN 1 ELSE 0)
                          + (IF groupib_tactics # {} THEN 1 ELSE 0)
                          + (IF technique_matches # <<>> THEN 1 ELSE 0)
    IN IF signals_active >= 3 THEN "high"
       ELSE IF signals_active >= 2 THEN "medium"
       ELSE "low"

TechniqueCap == 10
SubScore == 4

\* tid.split(".")[0]
ParentId(tid) == Split(tid, ".")[1]

RECURSIVE RetainLoop_Uncapped(_, _, _)
\* faulty variant: the loop never breaks
RetainLoop_Uncapped(technique_matches, top_techniques, seen_parents) ==
    IF technique_matches = <<>> THEN top_techniques
    ELSE LET t == Head(technique_matches)
             keep == ParentId(t.id) \notin seen_parents /\ (Contains(t.id, <<".">>) => t.score >= SubScore)
         IN RetainLoop_Uncapped(Tail(technique_matches),
                                IF keep THEN Append(top_techniques, t) ELSE top_techniques,
                                IF keep THEN seen_parents \cup {ParentId(t.id)} ELSE seen_parents)

RECURSIVE RetainLoop_AnyParent(_, _, _)
\* faulty variant: seen_parents is never consulted
RetainLoop_AnyParent(technique_matches, top_techniques, seen_parents) ==
    IF technique_matches = <<>> THEN top_techniques
    ELSE LET t == Head(technique_matches)
             keep == Contains(t.id, <<".">>) => t.score >= SubScore
             top == IF keep THEN Append(top_techniques, t) ELSE top_techniques
         IN IF Len(top) >= TechniqueCap THEN top
            ELSE RetainLoop_AnyParent(Tail(technique_matches), top, seen_parents)

RECURSIVE RetainLoop_AnySub(_, _, _)
\* faulty variant: a sub-technique is kept whatever its score
RetainLoop_AnySub(technique_matches, top_techniques, seen_parents) ==
    IF technique_matches = <<>> THEN top_techniques
    ELSE LET t == Head(technique_matches)
             keep == ParentId(t.id) \notin seen_parents
             top == IF keep THEN Append(top_techniques, t) ELSE top_techniques
             seen == IF keep THEN seen_parents \cup {ParentId(t.id)} ELSE seen_parents
         IN IF Len(top) >= TechniqueCap THEN top
            ELSE RetainLoop_AnySub(Tail(technique_matches), top, seen)

RECURSIVE RetainLoop(_, _, _)
\* for tid, tname, score in technique_matches: parents once, sub-techniques
\* only with a significant score, at most TechniqueCap
RetainLoop(technique_matches, top_techniques, seen_parents) ==
    IF technique_matches = <<>> THEN top_techniques
    ELSE LET t == Head(technique_matches)
             is_sub == Contains(t.id, <<".">>)
             parent_id == ParentId(t.id)
             keep == IF is_sub THEN parent_id \notin seen_parents /\ t.score >= SubScore
                     ELSE parent_id \notin seen_parents
             top == IF keep THEN Append(top_techniques, t) ELSE top_techniques
             seen == IF keep THEN seen_parents \cup {parent_id} ELSE seen_parents
         IN IF Len(top) >= TechniqueCap THEN top
            ELSE RetainLoop(Tail(technique_matches), top, seen)

\* faulty variant: the tactics of the retained techniques are not looked up
TacticOf_NotLookedUp(tid, techniques, tactic_name_to_id) == {}

RECURSIVE TacticOf(_, _, _)
\* the tactic id of the first catalog technique with that id, as a set
TacticOf(tid, techniques, tactic_name_to_id) ==
    IF techniques = <<>> THEN {}
    ELSE IF Head(techniques).id = tid
         THEN LET tactic_name == Get(Head(techniques).tactics, Str(<<>>)).s IN
              IF tactic_name \in DOMAIN tactic_name_to_id THEN {tactic_name_to_id[tactic_name]} ELSE {}
         ELSE TacticOf(tid, Tail(techniques), tactic_name_to_id)

NotesTop == 3

\* f"{tid} ({tname}, score={score:.0f})"
TechNote(t) == t.id \o <<" ", "(">> \o t.name \o <<",", " ", "s", "c", "o", "r", "e", "=">> \o Decimal(t.score) \o <<")">>

\* generate_notes: the human-readable mapping notes
generate_notes(cfpf_tactics, groupib_tactics, top_techniques, fraud_types) ==
    LET both == cfpf_tactics \cap groupib_tactics
        cfpf_only == cfpf_tactics \ groupib_tactics
        gib_only == groupib_tactics \ cfpf_tactics
        top3 == SubSeq(top_techniques, 1, IF Len(top_techniques) < NotesTop THEN Len(top_techniques) ELSE NotesTop)
        parts ==
            (IF both # {} THEN <<<<"T", "a", "c", "t", "i", "c", "s", " ">> \o Join(<<",", " ">>, Sorted(both)) \o <<" ", "c", "o", "n", "f", "i", "r", "m", "e", "d", " ", "b", "y", " ", "b", "o", "t", "h", " ", "C", "F", "P", "F", " ", "a", "n", "d", " ", "G", "r", "o", "u", "p", "-", "I", "B", " ", "s", "i", "g", "n", "a", "l", "s">>>> ELSE <<>>)
            \o (IF cfpf_only # {} THEN <<<<"T", "a", "c", "t", "i", "c", "s", " ">> \o Join(<<",", " ">>, Sorted(cfpf_only)) \o <<" ", "f", "r", "o", "m", " ", "C", "F", "P", "F", " ", "p", "h", "a", "s", "e", "s", " ", "o", "n", "l", "y">>>> ELSE <<>>)
            \o (IF gib_only # {} THEN <<<<"T", "a", "c", "t", "i", "c", "s", " ">> \o Join(<<",", " ">>, Sorted(gib_only)) \o <<" ", "f", "r", "o", "m", " ", "G", "r", "o", "u", "p", "-", "I", "B", " ", "s", "t", "a", "g", "e", "s", " ", "o", "n", "l", "y">>>> ELSE <<>>)
            \o (IF top_techniques # <<>>
                THEN <<<<"T", "o", "p", " ", "t", "e", "c", "h", "n", "i", "q", "u", "e", " ", "m", "a", "t", "c", "h", "e", "s", ":", " ">> \o Join(<<",", " ">>, [i \in 1..Len(top3) |-> TechNote(top3[i])])>> ELSE <<>>)
            \o (IF fraud_types # <<>> THEN <<<<"F", "r", "a", "u", "d", " ", "t", "y", "p", "e", "s", ":", " ">> \o Join(<<",", " ">>, fraud_types)>> ELSE <<>>)
    IN Join(<<";", " ">>, parts)

\* map_single_tp: the FT3 suggestion for one threat path
map_single_tp(meta, techniques, tactic_name_to_id) ==
    LET cfpf_phases == StrList(Get(meta.cfpf_phases, [t |-> "list", items |-> <<>>]))
        groupib_stages == StrList(Get(meta.groupib_stages, [t |-> "list", items |-> <<>>]))
        fraud_types == StrList(Get(meta.fraud_types, [t |-> "list", items |-> <<>>]))
        cfpf_tactics == map_cfpf_to_tactics(cfpf_phases)
        groupib_tactics == map_groupib_to_tactics(groupib_stages)
        combined_tactics_set == cfpf_tactics \cup groupib_tactics
        technique_matches == map_fraud_types_to_techniques(fraud_types, techniques)
        top_techniques == RetainLoop(technique_matches, <<>>, {})
        technique_tactic_set ==
            UNION { TacticOf(top_techniques[i].id, techniques, tactic_name_to_id) : i \in 1..Len(top_techniques) }
    IN [suggested_ft3_tactics |-> Sorted(combined_tactics_set \cup technique_tactic_set),
        suggested_ft3_techniques |-> [i \in 1..Len(top_techniques) |-> top_techniques[i].id],
        confidence |-> determine_confidence(cfpf_tactics, groupib_tactics, top_techniques),
        notes |-> generate_notes(cfpf_tactics, groupib_tactics, top_techniques, fraud_types),
        detail |-> [cfpf_tactics |-> Sorted(cfpf_tactics),
                    groupib_tactics |-> Sorted(groupib_tactics),
                    technique_implied_tactics |-> Sorted(technique_tactic_set),
                    technique_scores |-> top_techniques]]

-----------------------------------------------------------------------------
(* ft3_mapper.py: regular expressions on the text of a threat path file.   *)
(* A text is a str; positions count from 1; a match is [found, start, end] *)
(* with end the position after its last character.  A TLA+ string cannot   *)
(* hold a backquote: Tick stands for it, and no text holds a tilde.        *)

Tick == "~"
Fence == <<Tick, Tick, Tick>>

\* text[p:].startswith(lit)
StartsAt(text, p, lit) ==
    p + Len(lit) - 1 <= Len(text) /\ SubSeq(text, p, p + Len(lit) - 1) = lit

RECURSIVE WsEnd(_, _)
\* \s* from p: the position of the first character that is not white space
WsEnd(text, p) ==
    IF p <= Len(text) /\ IsSpace(text[p]) THEN WsEnd(text, p + 1) ELSE p

RECURSIVE LineEnd(_, _)
\* .* from p: the position of the next newline, or Len(text) + 1
LineEnd(text, p) ==
    IF p <= Len(text) /\ text[p] # "\n" THEN LineEnd(text, p + 1) ELSE p

\* ^ with re.MULTILINE
AtLineStart(text, p) == p = 1 \/ text[p - 1] = "\n"

Min(S) == CHOOSE x \in S : \A y \in S : x <= y
Max(S) == CHOOSE x \in S : \A y \in S : x >= y

NoMatch == [found |-> FALSE, start |-> 0, end |-> 0, group |-> <<>>]

\* \n---\s*\n and the closing fence at e
ClosingAt(text, e) ==
    /\ StartsAt(text, e, <<"\n", "-", "-", "-">>)
    /\ LET q == WsEnd(text, e + 4) IN
          q > e + 4 /\ text[q - 1] = "\n" /\ StartsAt(text, q, Fence)

\* FRONTMATTER_PATTERN matched at p, the fence being lit; start and end are
\* those of group(1), the header
FrontmatterAt(text, p, lit) ==
    IF ~StartsAt(text, p, lit) THEN NoMatch
    ELSE LET q1 == WsEnd(text, p + Len(lit)) IN
         IF ~(q1 > p + Len(lit) /\ text[q1 - 1] = "\n" /\ StartsAt(text, q1, <<"-", "-", "-">>)) THEN NoMatch
         ELSE LET a == q1 + 3
                  q2 == WsEnd(text, a)
                  closings == { e \in a..Len(text) : ClosingAt(text, e) }
                  starts == { i + 1 : i \in { j \in a..(q2 - 1) : text[j] = "\n" } }
                  usable == { s \in starts : \E e \in closings : e >= s }
              IN IF usable = {} THEN NoMatch
                 ELSE LET s == Max(usable)
                          e == Min({ x \in closings : x >= s })
                      IN [found |-> TRUE, start |-> s, end |-> e, group |-> SubSeq(text, s, e - 1)]

\* FRONTMATTER_PATTERN.search(text): fence ya?ml\s*\n---\s*\n(.*?)\n---\s*\n fence,
\* with re.DOTALL
FrontmatterSearch(text) ==
    LET at(p) == IF FrontmatterAt(text, p, Fence \o <<"y", "a", "m", "l">>).found
                 THEN FrontmatterAt(text, p, Fence \o <<"y", "a", "m", "l">>)
                 ELSE FrontmatterAt(text, p, Fence \o <<"y", "m", "l">>)
        hits == { p \in 1..Len(text) : at(p).found }
    IN IF hits = {} THEN NoMatch ELSE at(Min(hits))

FieldKey == <<"f", "t", "3", "_", "t", "a", "c", "t", "i", "c", "s", ":">>

\* pattern_inline matched at p: ^(ft3_tactics:\s*\[.*?\])(\s*#.*)?$
InlineAt(text, p) ==
    IF ~(AtLineStart(text, p) /\ StartsAt(text, p, FieldKey)) THEN NoMatch
    ELSE LET k == WsEnd(text, p + Len(FieldKey)) IN
         IF ~(k <= Len(text) /\ text[k] = "[") THEN NoMatch
         ELSE LET comment_end(j) ==
                      LET h == WsEnd(text, j + 1) IN
                      IF h <= Len(text) /\ text[h] = "#" THEN LineEnd(text, h)
                      ELSE IF j + 1 > Len(text) \/ text[j + 1] = "\n" THEN j + 1
                      ELSE 0
                  closers == { j \in (k + 1)..(LineEnd(text, k) - 1) : text[j] = "]" /\ comment_end(j) > 0 }
              IN IF closers = {} THEN NoMatch
                 ELSE LET j == Min(closers) IN
                      [found |-> TRUE, start |-> p, end |-> comment_end(j),
                       group |-> SubSeq(text, j + 1, comment_end(j) - 1)]

\* pattern_inline.search(text)
InlineSearch(text) ==
    LET hits == { p \in 1..Len(text) : InlineAt(text, p).found } IN
    IF hits = {} THEN NoMatch ELSE InlineAt(text, Min(hits))

\* one (?:\s+-\s+.*\n) from s: the position after it, or 0
BlockItemEnd(text, s) ==
    LET w1 == WsEnd(text, s) IN
    IF ~(w1 > s /\ w1 <= Len(text) /\ text[w1] = "-") THEN 0
    ELSE LET w2 == WsEnd(text, w1 + 1)
             ends == { m \in (w1 + 1)..(w2 - 1) : LineEnd(text, m + 1) <= Len(text) }
         IN IF ends = {} THEN 0 ELSE LineEnd(text, Max(ends) + 1) + 1

RECURSIVE BlockItemsEnd(_, _)
\* (?:\s+-\s+.*\n)* from s: the position after the last item
BlockItemsEnd(text, s) ==
    IF BlockItemEnd(text, s) = 0 THEN s ELSE BlockItemsEnd(text, BlockItemEnd(text, s))

\* pattern_block matched at p: ^ft3_tactics:\s*\n((?:\s+-\s+.*\n)*)
BlockAt(text, p) ==
    IF ~(AtLineStart(text, p) /\ StartsAt(text, p, FieldKey)) THEN NoMatch
    ELSE LET a == p + Len(FieldKey)
             q == WsEnd(text, a)
             newlines == { i \in a..(q - 1) : text[i] = "\n" }
         IN IF newlines = {} THEN NoMatch
            ELSE LET s == Max(newlines) + 1 IN
                 [found |-> TRUE, start |-> p, end |-> BlockItemsEnd(text, s),
                  group |-> SubSeq(text, s, BlockItemsEnd(text, s) - 1)]

\* pattern_block.search(text)
BlockSearch(text) ==
    LET hits == { p \in 1..Len(text) : BlockAt(text, p).found } IN
    IF hits = {} THEN NoMatch ELSE BlockAt(text, Min(hits))

\* the replacement line: ft3_tactics: ["A", "B"], or ft3_tactics: []
Replacement(tactic_ids) ==
    FieldKey \o <<" ", "[">> \o Join(<<",", " ">>, [i \in 1..Len(tactic_ids) |-> <<"\"">> \o tactic_ids[i] \o <<"\"">>]) \o <<"]">>

\* text[:m.start()] + middle + text[m.end():]
Splice(text, m, middle) ==
    SubSeq(text, 1, m.start - 1) \o middle \o SubSeq(text, m.end, Len(text))

\* faulty variant: a missing field is appended to the file
apply_ft3_tactics_AppendsWhenMissing(text, tactic_ids) ==
    IF InlineSearch(text).found
    THEN [ok |-> TRUE, text |-> Splice(text, InlineSearch(text), Replacement(tactic_ids) \o InlineSearch(text).group)]
    ELSE IF BlockSearch(text).found
    THEN [ok |-> TRUE, text |-> Splice(text, BlockSearch(text), Replacement(tactic_ids) \o <<"\n">>)]
    ELSE [ok |-> TRUE, text |-> text \o Replacement(tactic_ids) \o <<"\n">>]

\* apply_ft3_tactics: [ok |-> the value returned, text |-> the file afterwards]
apply_ft3_tactics(text, tactic_ids) ==
    LET match_inline == InlineSearch(text)
        match_block == BlockSearch(text)
    IN IF match_inline.found
       THEN [ok |-> TRUE, text |-> Splice(text, match_inline, Replacement(tactic_ids) \o match_inline.group)]
       ELSE IF match_block.found
       THEN [ok |-> TRUE, text |-> Splice(text, match_block, Replacement(tactic_ids) \o <<"\n">>)]
       ELSE [ok |-> FALSE, text |-> text]

-----------------------------------------------------------------------------
(* ft3_mapper.py: extract_frontmatter_raw.  yaml.safe_load is modelled on  *)
(* the subset of YAML the threat path headers use: a block mapping whose   *)
(* values are plain or quoted scalars, single-line flow sequences or block *)
(* sequences of scalars, with comments and blank lines; any other line is  *)
(* a parse error.                                                          *)

\* text.split("\n"): the lines between the newlines
Lines(text) ==
    LET breaks == { i \in 1..Len(text) : text[i] = "\n" } \cup {0, Len(text) + 1}
        nth(k) == CHOOSE p \in breaks : Cardinality({ q \in breaks : q < p }) = k
    IN [k \in 1..(Cardinality(breaks) - 1) |-> SubSeq(text, nth(k - 1) + 1, nth(k) - 1)]

\* a scalar without its quotes
Unquote(s) ==
    IF Len(s) >= 2 /\ Head(s) = s[Len(s)] /\ Head(s) \in {"\"", "'"}
    THEN Str(SubSeq(s, 2, Len(s) - 1)) ELSE Str(s)

\* a value without its trailing comment and the white space around it
Uncomment(v) ==
    LET marks == { i \in 1..Len(v) : v[i] = "#" /\ (i = 1 \/ IsSpace(v[i - 1])) } IN
    Strip(IF marks = {} THEN v ELSE SubSeq(v, 1, Min(marks) - 1))

\* the value of a single-line flow sequence [a, b]
FlowItems(v) ==
    LET inner == Strip(SubSeq(v, 2, Len(v) - 1))
        pieces == Split(inner, ",")
    IN [t |-> "list",
        items |-> IF inner = <<>> THEN <<>>
                  ELSE [i \in 1..Len(pieces) |-> Unquote(Strip(pieces[i]))]]

YamlError == [ok |-> FALSE, data |-> <<>>, key |-> <<>>, open |-> FALSE, items |-> <<>>]

\* the mapping with the pending key closed: a block sequence, or null
CloseKey(st) ==
    IF ~st.open THEN st
    ELSE [st EXCEPT !.open = FALSE, !.items = <<>>,
                    !.data = Append(@, [key |-> st.key,
                                        value |-> IF st.items = <<>> THEN [t |-> "None", s |-> <<>>]
                                                  ELSE [t |-> "list", items |-> st.items]])]

\* one line of the header read into the parser state
YamlLine(st, line) ==
    LET stripped == Strip(line) IN
    IF ~st.ok THEN st
    ELSE IF stripped = <<>> \/ Head(stripped) = "#" THEN st
    ELSE IF Head(stripped) = "-"
    THEN IF st.open /\ Len(stripped) >= 2 /\ stripped[2] = " "
         THEN [st EXCEPT !.items = Append(@, Unquote(Uncomment(SubSeq(stripped, 3, Len(stripped)))))]
         ELSE YamlError
    ELSE IF IsSpace(Head(line)) \/ ~Contains(line, <<":">>) THEN YamlError
    ELSE LET colon == Min({ i \in 1..Len(line) : line[i] = ":" })
             rest == SubSeq(line, colon + 1, Len(line))
             v == Uncomment(rest)
             closed == CloseKey(st)
             key == SubSeq(line, 1, colon - 1)
         IN IF rest # <<>> /\ ~IsSpace(Head(rest)) THEN YamlError
            ELSE IF v = <<>> THEN [closed EXCEPT !.key = key, !.open = TRUE]
            ELSE IF Head(v) = "["
            THEN IF v[Len(v)] = "]" /\ Cardinality({ i \in 1..Len(v) : v[i] = "]" }) = 1
                 THEN [closed EXCEPT !.data = Append(@, [key |-> key, value |-> FlowItems(v)])]
                 ELSE YamlError
            ELSE [closed EXCEPT !.data = Append(@, [key |-> key, value |-> Unquote(v)])]

RECURSIVE YamlLines(_, _)
YamlLines(st, lines) ==
    IF lines = <<>> THEN CloseKey(st) ELSE YamlLines(YamlLine(st, Head(lines)), Tail(lines))

\* data.get(key, Missing) on the (key, value) pairs, the last pair winning
Lookup(data, key) ==
    LET at == { i \in 1..Len(data) : data[i].key = key } IN
    IF at = {} THEN Missing ELSE data[Max(at)].value

NoMeta == [valid |-> FALSE, id |-> Missing, cfpf_phases |-> Missing, groupib_stages |-> Missing,
           fraud_types |-> Missing, ft3_tactics |-> Missing]

\* yaml.safe_load(raw_yaml), kept when it is a dict
safe_load(raw_yaml) ==
    LET st == YamlLines([ok |-> TRUE, data |-> <<>>, key |-> <<>>, open |-> FALSE, items |-> <<>>],
                        Lines(raw_yaml))
    IN IF ~st.ok \/ st.data = <<>> THEN NoMeta
       ELSE [valid |-> TRUE,
             id |-> Lookup(st.data, <<"i", "d">>),
             cfpf_phases |-> Lookup(st.data, <<"c", "f", "p", "f", "_", "p", "h", "a", "s", "e", "s">>),
             groupib_stages |-> Lookup(st.data, <<"g", "r", "o", "u", "p", "i", "b", "_", "s", "t", "a", "g", "e", "s">>),
             fraud_types |-> Lookup(st.data, <<"f", "r", "a", "u", "d", "_", "t", "y", "p", "e", "s">>),
             ft3_tactics |-> Lookup(st.data, <<"f", "t", "3", "_", "t", "a", "c", "t", "i", "c", "s">>)]

\* extract_frontmatter_raw: the header of a threat path file, NoMeta for None
extract_frontmatter_raw(text) ==
    LET match == FrontmatterSearch(text) IN
    IF ~match.found THEN NoMeta ELSE safe_load(match.group)

-----------------------------------------------------------------------------
(* Inputs of map_single_tp: technique catalogs, the tactic index and the   *)
(* header fields the mapper reads.                                         *)

CatalogSize == 12

\* a small catalog: a parent and its sub-technique, a weakly matching
\* sub-technique, a technique whose tactic the index does not know
SmallCatalog ==
    <<[id |-> <<"F", "T", "0", "0", "1">>, name |-> Str(<<"P", "h", "i", "s", "h", "i", "n", "g">>), description |-> Str(<<"C", "r", "e", "d", "e", "n", "t", "i", "a", "l", " ", "t", "h", "e", "f", "t", " ", "b", "y", " ", "e", "m", "a", "i", "l">>), tactics |-> Str(<<"I", "n", "i", "t", "i", "a", "l", " ", "A", "c", "c", "e", "s", "s">>)],
      [id |-> <<"F", "T", "0", "0", "1", ".", "0", "0", "1">>, name |-> Str(<<"S", "p", "e", "a", "r", "p", "h", "i", "s", "h", "i", "n", "g", " ", "L", "i", "n", "k">>), description |-> Missing, tactics |-> Str(<<"I", "n", "i", "t", "i", "a", "l", " ", "A", "c", "c", "e", "s", "s">>)],
      [id |-> <<"F", "T", "0", "0", "2", ".", "0", "0", "1">>, name |-> Str(<<"P", "a", "d", "d", "i", "n", "g">>), description |-> Str(<<"u", "p", "c", "o", "d", "i", "n", "g", " ", "o", "f", " ", "a", " ", "c", "l", "a", "i", "m">>), tactics |-> Str(<<"E", "x", "e", "c", "u", "t", "i", "o", "n">>)],
      [id |-> <<"F", "T", "0", "0", "3">>, name |-> Str(<<"F", "e", "e", " ", "H", "a", "r", "v", "e", "s", "t">>), description |-> Str(<<"a", "d", "v", "a", "n", "c", "e", " ", "f", "e", "e">>), tactics |-> Str(<<"C", "a", "s", "h", " ", "O", "u", "t">>)]>>

\* a catalog of CatalogSize parent techniques that all match "fee"
LargeCatalog ==
    [i \in 1..CatalogSize |->
        [id |-> <<"F", "T">> \o ZeroPad(Decimal(i), 3), name |-> Str(<<"F", "e", "e", " ", "f", "r", "a", "u", "d">>),
         description |-> Missing, tactics |-> Str(<<"M", "o", "n", "e", "t", "i", "z", "a", "t", "i", "o", "n">>)]]

\* a catalog of sub-techniques: two sub-techniques that outscore their
\* parent, a sub-technique that matches in its description only, a technique
\* whose name ends and whose description begins with the words of one term,
\* a technique that holds one term several times and names no tactic
SubCatalog ==
    <<[id |-> <<"F", "T", "0", "0", "1", ".", "0", "0", "2">>, name |-> Str(<<"S", "p", "e", "a", "r", "p", "h", "i", "s", "h", "i", "n", "g", " ", "A", "t", "t", "a", "c", "h", "m", "e", "n", "t">>), description |-> Str(<<"p", "h", "i", "s", "h", "i", "n", "g", " ", "b", "y", " ", "m", "a", "i", "l">>), tactics |-> Str(<<"I", "n", "i", "t", "i", "a", "l", " ", "A", "c", "c", "e", "s", "s">>)],
      [id |-> <<"F", "T", "0", "0", "1">>, name |-> Str(<<"P", "h", "i", "s", "h", "i", "n", "g">>), description |-> Str(<<"C", "r", "e", "d", "e", "n", "t", "i", "a", "l", " ", "t", "h", "e", "f", "t", " ", "b", "y", " ", "e", "m", "a", "i", "l">>), tactics |-> Str(<<"I", "n", "i", "t", "i", "a", "l", " ", "A", "c", "c", "e", "s", "s">>)],
      [id |-> <<"F", "T", "0", "0", "1", ".", "0", "0", "1">>, name |-> Str(<<"S", "p", "e", "a", "r", "p", "h", "i", "s", "h", "i", "n", "g", " ", "L", "i", "n", "k">>), description |-> Missing, tactics |-> Str(<<"I", "n", "i", "t", "i", "a", "l", " ", "A", "c", "c", "e", "s", "s">>)],
      [id |-> <<"F", "T", "0", "0", "4", ".", "0", "0", "1">>, name |-> Str(<<"P", "a", "d", "d", "i", "n", "g">>), description |-> Str(<<"f", "r", "a", "u", "d", "u", "l", "e", "n", "t", " ", "b", "i", "l", "l", "i", "n", "g", ":", " ", "u", "p", "c", "o", "d", "i", "n", "g", " ", "o", "f", " ", "a", " ", "c", "l", "a", "i", "m">>), tactics |-> Str(<<"E", "x", "e", "c", "u", "t", "i", "o", "n">>)],
      [id |-> <<"F", "T", "0", "0", "5">>, name |-> Str(<<"C", "a", "s", "h", " ", "A", "d", "v", "a", "n", "c", "e">>), description |-> Str(<<"f", "e", "e", " ", "p", "a", "i", "d", " ", "u", "p", "f", "r", "o", "n", "t">>), tactics |-> Str(<<"M", "o", "n", "e", "t", "i", "z", "a", "t", "i", "o", "n">>)],
      [id |-> <<"F", "T", "0", "0", "6">>, name |-> Str(<<"F", "e", "e", " ", "F", "e", "e">>), description |-> Str(<<"f", "e", "e">>), tactics |-> Missing]>>

Catalogs == {SmallCatalog, LargeCatalog, SubCatalog}

\* build_tactic_name_to_id over the tactics file: tactic name -> tactic id
TacticNameToId ==
       (<<"I", "n", "i", "t", "i", "a", "l", " ", "A", "c", "c", "e", "s", "s">> :> <<"F", "T", "A", "0", "0", "3">>)
    @@ (<<"E", "x", "e", "c", "u", "t", "i", "o", "n">> :> <<"F", "T", "A", "0", "0", "4">>)
    @@ (<<"M", "o", "n", "e", "t", "i", "z", "a", "t", "i", "o", "n">> :> <<"F", "T", "A", "0", "1", "0">>)

PhaseValues == {Missing,
                [t |-> "list", items |-> <<>>],
                [t |-> "list", items |-> <<Str(<<"P", "1">>)>>],
                [t |-> "list", items |-> <<Str(<<"P", "1">>), Str(<<"P", "2">>)>>],
                [t |-> "list", items |-> <<Str(<<"p", "4", " ">>)>>],
                Str(<<"P", "1">>)}
StageValues == {Missing,
                [t |-> "list", items |-> <<Str(<<"R", "e", "c", "o", "n", "n", "a", "i", "s", "s", "a", "n", "c", "e">>)>>],
                [t |-> "list", items |-> <<Str(<<"E", "x", "e", "c", "u", "t", "i", "o", "n">>), Str(<<"L", "a", "u", "n", "d", "e", "r", "i", "n", "g">>)>>],
                [t |-> "list", items |-> <<Str(<<"e", "x", "e", "c", "u", "t", "i", "o", "n">>)>>]}
FraudTypeValues == {Missing,
                   [t |-> "list", items |-> <<Str(<<"p", "h", "i", "s", "h", "i", "n", "g">>)>>],
                   [t |-> "list", items |-> <<Str(<<"a", "d", "v", "a", "n", "c", "e", "-", "f", "e", "e", "-", "f", "r", "a", "u", "d">>)>>],
                   [t |-> "list", items |-> <<Str(<<"U", "p", "c", "o", "d", "i", "n", "g", " ">>)>>],
                   [t |-> "list", items |-> <<Str(<<"B", "E", "C">>)>>],
                   [t |-> "list", items |-> <<Str(<<"f", "e", "e", "-", "h", "a", "r", "v", "e", "s", "t">>), Str(<<"p", "h", "i", "s", "h", "i", "n", "g">>)>>]}

Header(id, cfpf_phases, groupib_stages, fraud_types, ft3_tactics) ==
    [valid |-> TRUE, id |-> id, cfpf_phases |-> cfpf_phases, groupib_stages |-> groupib_stages,
     fraud_types |-> fraud_types, ft3_tactics |-> ft3_tactics]

Headers ==
    { Header(Str(TP1), p, s, f, Missing) : p \in PhaseValues, s \in StageValues, f \in FraudTypeValues }

-----------------------------------------------------------------------------
(* Threat path files.  A file is its text; a text is built from its lines. *)

MaxFiles == 2
MaxRuns == 2

\* the lines, each ended by a newline
Text(lines) == IF lines = <<>> THEN <<>> ELSE Join(<<"\n">>, lines) \o <<"\n">>

\* a document: lines, the fenced header, lines
Doc(pre, header, body) ==
    Text(pre \o <<Fence \o <<"y", "a", "m", "l">>, <<"-", "-", "-">>>> \o header \o <<<<"-", "-", "-">>, Fence>> \o body)

IdLine(id) == <<"i", "d", ":", " ">> \o id
StrayLine == <<"f", "t", "3", "_", "t", "a", "c", "t", "i", "c", "s", ":", " ", "[", "d", "r", "a", "f", "t", "]">>
BodyLine == <<"S", "o", "m", "e", " ", "t", "e", "x", "t", ".">>

\* the forms of the field in a header: flow sequences (empty, with a
\* comment, with trailing white space), block sequences (indented, not
\* indented, without items), a plain scalar, absent
FieldInline == <<<<"f", "t", "3", "_", "t", "a", "c", "t", "i", "c", "s", ":", " ", "[", "]">>>>
FieldComment == <<<<"f", "t", "3", "_", "t", "a", "c", "t", "i", "c", "s", ":", " ", "[", "\"", "F", "T", "A", "0", "0", "9", "\"", "]", " ", " ", "#", " ", "r", "e", "v", "i", "e", "w", "e", "d">>>>
FieldTrailing == <<<<"f", "t", "3", "_", "t", "a", "c", "t", "i", "c", "s", ":", " ", "[", "F", "T", "A", "0", "0", "9", "]", " ">>>>
FieldBlock == <<<<"f", "t", "3", "_", "t", "a", "c", "t", "i", "c", "s", ":">>, <<" ", " ", "-", " ", "F", "T", "A", "0", "0", "9">>, <<" ", " ", "-", " ", "F", "T", "A", "0", "1", "0">>>>
FieldFlush == <<<<"f", "t", "3", "_", "t", "a", "c", "t", "i", "c", "s", ":">>, <<"-", " ", "F", "T", "A", "0", "0", "9">>>>
FieldNull == <<<<"f", "t", "3", "_", "t", "a", "c", "t", "i", "c", "s", ":">>>>
FieldScalar == <<<<"f", "t", "3", "_", "t", "a", "c", "t", "i", "c", "s", ":", " ", "n", "o", "n", "e">>>>
FieldForms == {FieldInline, FieldComment, FieldTrailing, FieldBlock, FieldFlush, FieldNull, FieldScalar, <<>>}

\* the texts apply_ft3_tactics is called on directly
ApplyTexts ==
    { Doc(pre, <<IdLine(TP1)>> \o field \o <<<<"c", "f", "p", "f", "_", "p", "h", "a", "s", "e", "s", ":", " ", "[", "P", "1", "]">>>>, <<BodyLine>> \o post) :
        pre \in {<<>>, <<StrayLine>>}, field \in FieldForms, post \in {<<>>, <<StrayLine>>} }

TacticLists == {<<>>, <<<<"F", "T", "A", "0", "0", "1">>>>, <<<<"F", "T", "A", "0", "0", "1">>, <<"F", "T", "A", "0", "0", "3">>>>}

\* the threat path files of a mapper run: three declare the same id, one
\* declares none, two have no valid header
TpInline ==
    Doc(<<>>, <<IdLine(TP1), <<"c", "f", "p", "f", "_", "p", "h", "a", "s", "e", "s", ":", " ", "[", "P", "1", "]">>, <<"f", "r", "a", "u", "d", "_", "t", "y", "p", "e", "s", ":", " ", "[", "p", "h", "i", "s", "h", "i", "n", "g", "]">>>> \o FieldInline, <<BodyLine>>)
TpBlock ==
    Doc(<<>>, <<<<"g", "r", "o", "u", "p", "i", "b", "_", "s", "t", "a", "g", "e", "s", ":">>, <<" ", " ", "-", " ", "E", "x", "e", "c", "u", "t", "i", "o", "n">>>> \o FieldBlock, <<BodyLine>>)
TpFlush ==
    Doc(<<>>, <<IdLine(TP1)>> \o FieldFlush \o <<<<"c", "f", "p", "f", "_", "p", "h", "a", "s", "e", "s", ":", " ", "[", "P", "2", "]">>>>, <<BodyLine>>)
TpSameId ==
    Doc(<<>>, <<IdLine(TP1), <<"c", "f", "p", "f", "_", "p", "h", "a", "s", "e", "s", ":", " ", "[", "P", "3", "]">>>> \o FieldComment, <<BodyLine>>)
TpNoHeader == Text(<<<<"#", " ", "N", "o", "t", "e", "s">>, <<"f", "t", "3", "_", "t", "a", "c", "t", "i", "c", "s", ":", " ", "[", "]">>>>)
TpBadYaml ==
    Doc(<<>>, <<IdLine(TP2), <<"n", "o", "t", " ", "a", " ", "m", "a", "p", "p", "i", "n", "g">>>> \o FieldInline, <<BodyLine>>)
TpTexts == {TpInline, TpBlock, TpFlush, TpSameId, TpNoHeader, TpBadYaml}

\* filepath.stem of the i-th file of sorted(tp_dir.glob("TP-*.md"))
Stem(i) == <<"T", "P", "-">> \o ZeroPad(Decimal(i), 4) \o <<"-", "t", "e", "s", "t">>

-----------------------------------------------------------------------------
(* ft3_mapper.py: main.  results is the dict of suggestions as its         *)
(* (tp_id, mapping) pairs in insertion order.                              *)

\* meta.get("id", filepath.stem)
TpId(meta, i) == IF meta.id.t = "missing" THEN Stem(i) ELSE PyStr(meta.id).s

\* results[tp_id] = mapping
Put(results, tp_id, mapping) ==
    IF \E k \in 1..Len(results) : results[k].tp_id = tp_id
    THEN [k \in 1..Len(results) |->
             IF results[k].tp_id = tp_id THEN [tp_id |-> tp_id, mapping |-> mapping] ELSE results[k]]
    ELSE Append(results, [tp_id |-> tp_id, mapping |-> mapping])

\* the suggestion of a file with a valid header entered under its id
Entered(results, meta, i) ==
    IF ~meta.valid THEN results
    ELSE Put(results, TpId(meta, i), map_single_tp(meta, SmallCatalog, TacticNameToId))

RECURSIVE Results_AbortOnInvalid(_, _, _)
\* faulty variant: the first file without a header ends the loop
Results_AbortOnInvalid(fs, i, results) ==
    IF i > Len(fs) \/ \E meta \in {extract_frontmatter_raw(fs[i])} : ~meta.valid THEN results
    ELSE Results_AbortOnInvalid(fs, i + 1, Entered(results, extract_frontmatter_raw(fs[i]), i))

RECURSIVE Results(_, _, _)
\* for filepath in tp_files: the suggestions, files without a header skipped
Results(fs, i, results) ==
    IF i > Len(fs) THEN results
    ELSE Results(fs, i + 1, Entered(results, extract_frontmatter_raw(fs[i]), i))

\* results[tp_id]["suggested_ft3_tactics"]
Suggested(results, tp_id) ==
    results[CHOOSE k \in 1..Len(results) : results[k].tp_id = tp_id].mapping.suggested_ft3_tactics

\* one pass of the apply loop over a file with header meta: the text of the
\* file afterwards
Applied(text, meta, i, results) ==
    IF ~meta.valid \/ ~(\E k \in 1..Len(results) : results[k].tp_id = TpId(meta, i)) THEN text
    ELSE apply_ft3_tactics(text, Suggested(results, TpId(meta, i))).text

\* the apply loop on the i-th file
ApplyOne(fs, i, results) == Applied(fs[i], extract_frontmatter_raw(fs[i]), i, results)

\* what one run leaves behind: applying says whether the apply loop ran,
\* wrote whether the suggestions file was written
Outcome(fs, apply, results, applying, wrote) ==
    [apply |-> apply,
     before |-> fs,
     after |-> [i \in 1..Len(fs) |-> IF applying THEN ApplyOne(fs, i, results) ELSE fs[i]],
     results |-> results,
     wrote |-> wrote,
     skipped |-> { i \in 1..Len(fs) : ~extract_frontmatter_raw(fs[i]).valid }]

\* faulty variant: the apply loop runs whatever the mode
main_AlwaysApplies(fs, apply) == Outcome(fs, apply, Results(fs, 1, <<>>), TRUE, TRUE)

\* faulty variant: only an apply run writes the suggestions file
main_SilentDryRun(fs, apply) == Outcome(fs, apply, Results(fs, 1, <<>>), apply, apply)

\* main() over the threat path files fs, with or without --apply: the
\* suggestions file is written in both modes, the apply loop runs with --apply
main(fs, apply) == Outcome(fs, apply, Results(fs, 1, <<>>), apply, TRUE)

-----------------------------------------------------------------------------
(* The state machine.  A behaviour is either one collection run (main:     *)
(* collect_alerts over a mapping, then write_csv or the dry-run output) or *)
(* direct calls of parse() on one adapter instance.                        *)

SourceOrders == { q \in SeqsUpTo(Adapters, MaxSources) : \A i, j \in 1..Len(q) : i # j => q[i] # q[j] }

InitCollect ==
    /\ sources \in SourceOrders
    /\ config = [a \in Adapters |-> RunMapping(a)]
    /\ pc = "collect"
    /\ budget = MaxItems

InitParse ==
    /\ \E a \in Adapters :
          /\ sources = <<a>>
          /\ \E m \in Mappings(a) : config = [x \in Adapters |-> IF x = a THEN m ELSE NoMapping]
    /\ pc = "parse"
    /\ budget = 0

\* a direct call of write_csv on a list of alerts, as the CSV consumers see it
InitWrite ==
    /\ sources = <<>>
    /\ config = [a \in Adapters |-> NoMapping]
    /\ pc = "write"
    /\ budget = 0
    /\ all_alerts \in { <<TestAlert(ids)>> : ids \in SeqsUpTo(TpIds, MaxItems) }

\* the regulatory feed collector is not running
CollectorIdle ==
    /\ sources = <<>>
    /\ config = [a \in Adapters |-> NoMapping]
    /\ budget = 0
    /\ all_alerts = <<>>

collectorVars == <<sources, config, idx, all_alerts, runs, csv_file, budget, call, again, db>>

\* a direct call of map_single_tp
InitMap ==
    /\ CollectorIdle
    /\ pc = "map"
    /\ files = <<>> /\ output = NoFile /\ log = <<>> /\ applied = <<>> /\ mapcall = <<>>

\* a direct call of apply_ft3_tactics on one file
InitApply ==
    /\ CollectorIdle
    /\ pc = "apply"
    /\ files \in { <<text>> : text \in ApplyTexts }
    /\ output = NoFile /\ log = <<>> /\ applied = <<>> /\ mapcall = <<>>

\* runs of the mapper over a directory of threat path files
InitMapper ==
    /\ CollectorIdle
    /\ pc = "mapper"
    /\ files \in SeqsUpTo(TpTexts, MaxFiles) \ {<<>>}
    /\ output = NoFile /\ log = <<>> /\ applied = <<>> /\ mapcall = <<>>

\* the mapper is not running
MapperIdle ==
    /\ files = <<>>
    /\ output = NoFile
    /\ log = <<>>
    /\ applied = <<>>
    /\ mapcall = <<>>

Init ==
    /\ \/ (InitCollect \/ InitParse) /\ all_alerts = <<>> /\ MapperIdle
       \/ InitWrite /\ MapperIdle
       \/ InitMap
       \/ InitApply
       \/ InitMapper
    /\ idx = 0
    /\ runs = <<>>
    /\ csv_file = NoFile
    /\ call = <<>>
    /\ again = <<>>
    /\ db = NoDb

\* one iteration of the loop of collect_alerts, given what fetch() does
CollectOne(fetched) ==
    LET name == sources[idx + 1]
        result == run(name, config[name], fetched)
    IN
    /\ runs' = Append(runs, [source |-> name, fetched |-> fetched,
                             parsed |-> ParseFetched(name, config[name], fetched),
                             returned |-> result.alerts, raised |-> result.raised])
    /\ idx' = idx + 1
    /\ budget' = budget - Len(Items(fetched.raw))
    /\ IF result.raised
       THEN pc' = "crashed" /\ all_alerts' = all_alerts
       ELSE pc' = pc /\ all_alerts' = Extend(all_alerts, result.alerts)
    /\ UNCHANGED <<sources, config, csv_file, call, again, db, mapperVars>>

\* source.run() when fetch() raises (network or HTTP error)
RunFetchFails ==
    /\ pc = "collect"
    /\ idx < Len(sources)
    /\ CollectOne(FetchRaised)

\* source.run() when fetch() returns
RunFetched ==
    /\ pc = "collect"
    /\ idx < Len(sources)
    /\ \E raw \in FetchReturns(sources[idx + 1], budget) : CollectOne(FetchReturned(raw))

\* main: "No active sources to run. Exiting."
NoActiveSources ==
    /\ pc = "collect"
    /\ sources = <<>>
    /\ pc' = "done"
    /\ UNCHANGED <<sources, config, idx, all_alerts, runs, csv_file, budget, call, again, db, mapperVars>>

\* collect_alerts has returned; main without --dry-run: write_csv(alerts, args.output)
WriteCsv ==
    /\ pc = "collect"
    /\ sources # <<>>
    /\ idx = Len(sources)
    /\ csv_file' = File(write_csv(all_alerts))
    /\ pc' = "done"
    /\ UNCHANGED <<sources, config, idx, all_alerts, runs, budget, call, again, db, mapperVars>>

\* collect_alerts has returned; main with --dry-run: prints, writes nothing
DryRun ==
    /\ pc = "collect"
    /\ sources # <<>>
    /\ idx = Len(sources)
    /\ pc' = "done"
    /\ UNCHANGED <<sources, config, idx, all_alerts, runs, csv_file, budget, call, again, db, mapperVars>>

ParseRecord(name, raw) ==
    [source |-> name, raw |-> raw,
     raised |-> Parse(name, config[name], raw).raised,
     alerts |-> Parse(name, config[name], raw).alerts]

\* a direct call of parse() on the instance
ParseCall ==
    /\ pc = "parse"
    /\ call = <<>>
    /\ \E raw \in RawValues(sources[1], MaxItems) : call' = <<ParseRecord(sources[1], raw)>>
    /\ UNCHANGED <<sources, config, pc, idx, all_alerts, runs, csv_file, budget, again, db, mapperVars>>

\* the same instance parses the same raw value once more
ParseAgain ==
    /\ pc = "parse"
    /\ call # <<>>
    /\ again = <<>>
    /\ again' = <<ParseRecord(sources[1], call[1].raw)>>
    /\ UNCHANGED <<sources, config, pc, idx, all_alerts, runs, csv_file, budget, call, db, mapperVars>>

\* write_csv(alerts, output) called directly
WriteCsvCall ==
    /\ pc = "write"
    /\ csv_file' = File(write_csv(all_alerts))
    /\ pc' = "written"
    /\ UNCHANGED <<sources, config, idx, all_alerts, runs, budget, call, again, db, mapperVars>>

\* build_database: build_regulatory_alerts(conn, csv_path) on the file written
BuildRegulatoryAlerts ==
    /\ pc \in {"written", "done"}
    /\ csv_file.exists
    /\ ~db.built
    /\ db' = build_regulatory_alerts(db, csv_file.rows)
    /\ UNCHANGED <<sources, config, pc, idx, all_alerts, runs, csv_file, budget, call, again, mapperVars>>

\* map_single_tp(meta, techniques, tactic_name_to_id) called directly
MapCall ==
    /\ pc = "map"
    /\ \E meta \in Headers, techniques \in Catalogs :
          mapcall' = <<[meta |-> meta, techniques |-> techniques,
                        result |-> map_single_tp(meta, techniques, TacticNameToId)]>>
    /\ pc' = "mapped"
    /\ UNCHANGED <<collectorVars, files, output, log, applied>>

\* apply_ft3_tactics(filepath, tactic_ids) called directly
ApplyCall ==
    /\ pc = "apply"
    /\ applied = <<>>
    /\ \E tactic_ids \in TacticLists :
          \E result \in {apply_ft3_tactics(files[1], tactic_ids)} :
              /\ applied' = <<[text |-> files[1], tactic_ids |-> tactic_ids, ok |-> result.ok]>>
              /\ files' = <<result.text>>
    /\ UNCHANGED <<collectorVars, pc, output, log, mapcall>>

\* one run of main(), without --apply (a dry-run) or with it
MapperRun(apply) ==
    /\ pc = "mapper"
    /\ Len(log) < MaxRuns
    /\ \E outcome \in {main(files, apply)} :
          /\ files' = outcome.after
          /\ output' = IF outcome.wrote THEN File(outcome.results) ELSE output
          /\ log' = Append(log, outcome)
    /\ UNCHANGED <<collectorVars, pc, applied, mapcall>>

Next ==
    \/ RunFetchFails
    \/ RunFetched
    \/ NoActiveSources
    \/ WriteCsv
    \/ DryRun
    \/ ParseCall
    \/ ParseAgain
    \/ WriteCsvCall
    \/ BuildRegulatoryAlerts
    \/ MapCall
    \/ ApplyCall
    \/ MapperRun(FALSE)
    \/ MapperRun(TRUE)

Spec == Init /\ [][Next]_vars

-----------------------------------------------------------------------------
(* Properties of the regulatory feed ingestion.                            *)

RECURSIVE ConcatReturned(_)
\* the outputs of the recorded run() calls, one after the other
ConcatReturned(rs) ==
    IF rs = <<>> THEN <<>> ELSE Head(rs).returned \o ConcatReturned(Tail(rs))

AlertIds(alerts) == [i \in 1..Len(alerts) |-> alerts[i].alert_id]

Rank(severity) ==
    CASE severity = Str(<<"l", "o", "w">>) -> 1
      [] severity = Str(<<"m", "e", "d", "i", "u", "m">>) -> 2
      [] severity = Str(<<"h", "i", "g", "h">>) -> 3

\* C1: run() of every adapter never raises: when fetch() or parse() raises
\* it returns the empty list, and otherwise what parse() returned.
C1_RunNeverRaises ==
    /\ pc # "crashed"
    /\ \A i \in 1..Len(runs) :
          /\ ~runs[i].raised
          /\ (runs[i].fetched.raised \/ runs[i].parsed.raised) => runs[i].returned = <<>>
          /\ (~runs[i].fetched.raised /\ ~runs[i].parsed.raised) => runs[i].returned = runs[i].parsed.alerts

\* a collection run in which fetch() of one adapter raised and parse() of another did
C1_Witness ==
    \E i, j \in 1..Len(runs) :
        /\ runs[i].fetched.raised
        /\ ~runs[j].fetched.raised /\ runs[j].parsed.raised
        /\ pc = "done"

\* C2: the merged list of collect_alerts is the concatenation, in the order
\* of the mapping, of what run() of each adapter returned; an adapter that
\* failed adds nothing, and the list is empty when every adapter returned [].
C2_Concatenation ==
    pc \in {"collect", "done"} =>
        /\ Len(runs) = idx
        /\ idx <= Len(sources)
        /\ \A i \in 1..Len(runs) : runs[i].source = sources[i]
        /\ all_alerts = ConcatReturned(runs)
        /\ \A i \in 1..Len(runs) : runs[i].fetched.raised \/ runs[i].parsed.raised => runs[i].returned = <<>>
        /\ (\A i \in 1..Len(runs) : runs[i].returned = <<>>) => all_alerts = <<>>

\* collect_alerts has returned the alerts of two adapters that both had some
C2_Witness ==
    /\ pc = "done"
    /\ Len(sources) = 2
    /\ runs[1].returned # <<>>
    /\ runs[2].returned # <<>>
    /\ all_alerts = runs[1].returned \o runs[2].returned

\* the empty value of the type that fetch() of an adapter returns
EmptyRawOf(name) ==
    CASE name = "cfpb" -> CfpbDict(Missing)
      [] name = "ofac" -> EmptyBytes
      [] OTHER -> EmptyStr

\* C3: parse() of every adapter returns [] on its empty raw value, without raising.
C3_EmptyRawGivesNoAlerts ==
    \A k \in 1..Len(call) :
        call[k].raw = EmptyRawOf(call[k].source) => ~call[k].raised /\ call[k].alerts = <<>>

\* C4: parse() of every adapter never raises on malformed input or on records
\* with missing or null fields, and the attributes of the alerts it builds
\* from such records are strings (the empty string by default).
C4_ParseNeverRaises ==
    \A k \in 1..Len(call) :
        /\ ~call[k].raised
        /\ \A i \in 1..Len(call[k].alerts) :
              LET x == call[k].alerts[i] IN
              x.title.t = "str" /\ x.date.t = "str" /\ x.category.t = "str" /\ x.summary.t = "str"

\* C5: for every adapter and raw value, the alert of a record whose category
\* has a non-empty category_mapping entry is never less severe than the alert
\* of the same record under a configuration where the category has none.
C5_SeverityMonotone ==
    \A k \in 1..Len(call) :
        \A m \in Mappings(call[k].source) :
            LET mine == call[k].alerts
                other == Parse(call[k].source, m, call[k].raw).alerts
            IN \A i \in 1..Len(mine) :
                  /\ i <= Len(other)
                  /\ (mine[i].mapped_tp_ids # <<>> /\ other[i].mapped_tp_ids = <<>>)
                        => Rank(mine[i].severity) >= Rank(other[i].severity)

\* an OCC alert of a mapped category, which an empty mapping would rate lower
C5_Witness ==
    /\ call # <<>>
    /\ call[1].source = "occ"
    /\ \E i \in 1..Len(call[1].alerts) :
          /\ call[1].alerts[i].mapped_tp_ids # <<>>
          /\ Rank(call[1].alerts[i].severity) > Rank(Parse("occ", NoMapping, call[1].raw).alerts[i].severity)

C7_UniqueIds ==
    \A i, j \in 1..Len(all_alerts) :
        i # j => <<all_alerts[i].source, all_alerts[i].alert_id>> # <<all_alerts[j].source, all_alerts[j].alert_id>>

\* the upstream entries in another order, or with one removed
Rearranged(els) ==
    IF els = <<>> THEN {} ELSE {Tail(els), [i \in 1..Len(els) |-> els[Len(els) + 1 - i]]}

\* C8: for OCC and SEC the alert id of an entry depends on the entry alone:
\* the entry with the same link gets the same id when the upstream entries
\* come in another order or without the first one.
C8_IdOfEntryIsStable ==
    \A k \in 1..Len(call) :
        (call[k].source \in {"occ", "sec"} /\ call[k].raw.t = "html") =>
            \A q \in Rearranged(call[k].raw.els) :
                LET mine == call[k].alerts
                    other == Parse(call[k].source, config[call[k].source], Page(q)).alerts
                IN \A i \in 1..Len(mine), j \in 1..Len(other) :
                      mine[i].url = other[j].url => mine[i].alert_id = other[j].alert_id

\* C9: the list parse() of an adapter scraping HTML returns has no two alerts
\* with the same title.
C9_NoDuplicateTitles ==
    \A k \in 1..Len(call) :
        call[k].source \in {"occ", "sec", "fincen", "fbi_ic3"} =>
            \A i, j \in 1..Len(call[k].alerts) :
                i # j => call[k].alerts[i].title # call[k].alerts[j].title

\* C10: the file write_csv produces has the header row with the nine columns
\* in order, then one row of nine cells per alert, in list order; only the
\* header for an empty list.
C10_CsvRows ==
    csv_file.exists =>
        /\ Len(csv_file.rows) = Len(all_alerts) + 1
        /\ csv_file.rows[1] = <<<<"s", "o", "u", "r", "c", "e">>, <<"a", "l", "e", "r", "t", "_", "i", "d">>, <<"t", "i", "t", "l", "e">>, <<"d", "a", "t", "e">>, <<"c", "a", "t", "e", "g", "o", "r", "y">>,
                                <<"m", "a", "p", "p", "e", "d", "_", "t", "p", "_", "i", "d", "s">>, <<"u", "r", "l">>, <<"s", "e", "v", "e", "r", "i", "t", "y">>, <<"s", "u", "m", "m", "a", "r", "y">>>>
        /\ \A i \in 1..Len(all_alerts) :
              /\ Len(csv_file.rows[i + 1]) = 9
              /\ csv_file.rows[i + 1][1] = all_alerts[i].source.s
              /\ csv_file.rows[i + 1][2] = all_alerts[i].alert_id.s
              /\ csv_file.rows[i + 1][7] = all_alerts[i].url.s
              /\ csv_file.rows[i + 1][8] = all_alerts[i].severity.s

\* a file written from the alerts of two sources
C10_Witness ==
    /\ csv_file.exists
    /\ Len(all_alerts) = 2
    /\ all_alerts[1].source # all_alerts[2].source
    /\ Len(csv_file.rows) = 3

\* the mapped_tp_ids cell of the data row written for the only alert
TpCell == csv_file.rows[2][6]

\* the list build_regulatory_alerts stored for the only alert
ReadBack == StoredTpIds(db.mapping, Strip(all_alerts[1].alert_id.s))

\* C11 as stated: for a list of identifiers none of which contains "|", the
\* cell written is the "|"-join, reading it back gives the list again, and
\* the cell is empty exactly when the list is.
C11_RoundTripAnyIds ==
    (pc = "written" /\ db.built) =>
        LET ids == all_alerts[1].mapped_tp_ids IN
        (\A i \in 1..Len(ids) : ~Contains(ids[i], <<"|">>)) =>
            /\ ReadBack = ids
            /\ (TpCell = <<>>) <=> (ids = <<>>)

\* C11 amended: the same for identifiers that are also non-empty and have no
\* leading or trailing white space.
C11_RoundTrip ==
    (pc = "written" /\ db.built) =>
        LET ids == all_alerts[1].mapped_tp_ids IN
        (\A i \in 1..Len(ids) : ~Contains(ids[i], <<"|">>) /\ ids[i] # <<>> /\ Strip(ids[i]) = ids[i]) =>
            /\ TpCell = Join(<<"|">>, ids)
            /\ ReadBack = ids
            /\ (TpCell = <<>>) <=> (ids = <<>>)

\* two different identifiers were written and read back
C11_Witness ==
    /\ pc = "written"
    /\ db.built
    /\ all_alerts[1].mapped_tp_ids = <<TP1, TP2>>
    /\ ReadBack = <<TP1, TP2>>

-----------------------------------------------------------------------------
(* Properties of the FT3 mapper.                                           *)

Signal(q) == IF q # <<>> THEN 1 ELSE 0

\* how many of the three signals of a suggestion are non-empty
SignalsActive(result) ==
    Signal(result.detail.cfpf_tactics) + Signal(result.detail.groupib_tactics)
        + Signal(result.suggested_ft3_techniques)

PhasesP1P2 == [t |-> "list", items |-> <<Str(<<"P", "1">>), Str(<<"P", "2">>)>>]

\* C12: the confidence of a suggestion is decided by the number of
\* non-empty signals alone (phase tactics, stage tactics, retained
\* techniques): three give high, two medium, fewer low; phases [P1, P2]
\* without stages and one retained technique give medium.
C12_ConfidenceBySignals ==
    mapcall # <<>> =>
        LET result == mapcall[1].result IN
        /\ SignalsActive(result) = 3 => result.confidence = "high"
        /\ SignalsActive(result) = 2 => result.confidence = "medium"
        /\ SignalsActive(result) <= 1 => result.confidence = "low"
        /\ (/\ mapcall[1].meta.cfpf_phases = PhasesP1P2
            /\ result.detail.groupib_tactics = <<>>
            /\ Len(result.suggested_ft3_techniques) = 1) => result.confidence = "medium"

\* phases [P1, P2] gave four tactics, no stage matched, one technique was
\* retained and implied a tactic: medium
C12_Witness ==
    /\ mapcall # <<>>
    /\ mapcall[1].meta.cfpf_phases = PhasesP1P2
    /\ Len(mapcall[1].result.detail.cfpf_tactics) > 1
    /\ mapcall[1].result.detail.groupib_tactics = <<>>
    /\ Len(mapcall[1].result.suggested_ft3_techniques) = 1
    /\ mapcall[1].result.detail.technique_implied_tactics # <<>>
    /\ mapcall[1].result.confidence = "medium"

\* C13: the technique list of a suggestion never has more than ten entries,
\* whatever the header and the catalog.
C13_TechniqueCap ==
    mapcall # <<>> => Len(mapcall[1].result.suggested_ft3_techniques) <= TechniqueCap

\* more than ten parent techniques of the catalog matched and ten were kept
C13_Witness ==
    /\ mapcall # <<>>
    /\ Len(map_fraud_types_to_techniques(StrList(Get(mapcall[1].meta.fraud_types, [t |-> "list", items |-> <<>>])),
                                         mapcall[1].techniques)) > TechniqueCap
    /\ Len(mapcall[1].result.suggested_ft3_techniques) = TechniqueCap


\* the value of a line that starts with ft3_tactics:, without comment
FieldValue(line) == Uncomment(SubSeq(line, Len(FieldKey) + 1, Len(line)))

\* the line holds the field as a single-line flow sequence
IsFlowField(line) ==
    /\ StartsWith(line, FieldKey)
    /\ FieldValue(line) # <<>>
    /\ Head(FieldValue(line)) = "[" /\ FieldValue(line)[Len(FieldValue(line))] = "]"

\* the line holds the field in one of the two forms: a flow sequence, or
\* the key alone with the items of a block sequence on the lines below
IsFieldForm(line) ==
    StartsWith(line, FieldKey) /\ (FieldValue(line) = <<>> \/ Head(FieldValue(line)) = "[")

\* the number of the line that holds position p
LineOf(text, p) == 1 + Cardinality({ i \in 1..(p - 1) : text[i] = "\n" })

\* the numbers of the lines of the header
HeaderLines(text) ==
    IF ~FrontmatterSearch(text).found THEN {}
    ELSE LineOf(text, FrontmatterSearch(text).start)..LineOf(text, FrontmatterSearch(text).end)

\* the trailing comment of a line, from its # on
CommentOf(line) ==
    LET marks == { i \in 2..Len(line) : line[i] = "#" /\ IsSpace(line[i - 1]) } IN
    IF marks = {} THEN <<>> ELSE SubSeq(line, Min(marks), Len(line))

\* C14: a file without an ft3_tactics field in either form is refused:
\* apply_ft3_tactics returns False and the file stays as it was.
C14_NoFieldRefused ==
    (applied # <<>> /\ \A i \in 1..Len(Lines(applied[1].text)) : ~IsFieldForm(Lines(applied[1].text)[i])) =>
        /\ ~applied[1].ok
        /\ files[1] = applied[1].text

\* refused once for a file without the key and once for a plain scalar
C14_Witness ==
    /\ applied # <<>>
    /\ \A i \in 1..Len(Lines(applied[1].text)) : ~IsFieldForm(Lines(applied[1].text)[i])
    /\ \E i \in 1..Len(Lines(applied[1].text)) : StartsWith(Lines(applied[1].text)[i], FieldKey)
    /\ applied[1].tactic_ids # <<>>
    /\ ~applied[1].ok

\* C15: when the header holds the field as a single-line flow sequence, the
\* call succeeds, that line becomes the new list followed by its old
\* comment, and every other line of the file is as before.
C15_InlineReplaced ==
    applied # <<>> =>
        LET old == Lines(applied[1].text)
            new == Lines(files[1])
        IN \A k \in HeaderLines(applied[1].text) :
              IsFlowField(old[k]) =>
                  /\ applied[1].ok
                  /\ Len(new) = Len(old)
                  /\ \A i \in 1..Len(old) : i # k => new[i] = old[i]
                  /\ StartsWith(new[k], Replacement(applied[1].tactic_ids))
                  /\ EndsWith(new[k], CommentOf(old[k]))

\* the text without its header: what is before it and what is behind it
Outside(text) ==
    <<SubSeq(text, 1, FrontmatterSearch(text).start - 1),
      SubSeq(text, FrontmatterSearch(text).end, Len(text))>>

\* a line outside the header starts with ft3_tactics:
HasStrayLine(text) ==
    \E i \in 1..Len(Lines(text)) : i \notin HeaderLines(text) /\ StartsWith(Lines(text)[i], FieldKey)

\* C16: when a line outside the header starts with ft3_tactics: and the
\* header holds the field, the text outside the header is left alone and
\* the field of the header becomes the new list.
C16_HeaderOnly ==
    (/\ applied # <<>>
     /\ HasStrayLine(applied[1].text)
     /\ \E k \in HeaderLines(applied[1].text) : IsFieldForm(Lines(applied[1].text)[k])) =>
        /\ applied[1].ok
        /\ Outside(files[1]) = Outside(applied[1].text)
        /\ StrList(extract_frontmatter_raw(files[1]).ft3_tactics) = applied[1].tactic_ids

\* every run so far was a dry-run
OnlyDryRuns == log # <<>> /\ \A k \in 1..Len(log) : ~log[k].apply

C19_ApplyTwice ==
    \A k \in 1..(Len(log) - 1) :
        (log[k].apply /\ log[k + 1].apply) => log[k + 1].after = log[k].after

\* the files of a run that have a valid header
Valid(fs) == { i \in 1..Len(fs) : extract_frontmatter_raw(fs[i]).valid }

\* C20: a file without a valid header is skipped and the batch goes on: the
\* file is unchanged, also in apply mode, and every file with a valid header
\* has an entry under its id in the output, which is its own suggestion
\* when no other file declares that id.
C20_InvalidSkipped ==
    \A k \in 1..Len(log) :
        LET fs == log[k].before
            id(i) == TpId(extract_frontmatter_raw(fs[i]), i)
        IN /\ log[k].skipped = (1..Len(fs)) \ Valid(fs)
           /\ \A i \in log[k].skipped : log[k].after[i] = fs[i]
           /\ \A i \in Valid(fs) :
                 \E e \in 1..Len(log[k].results) :
                     /\ log[k].results[e].tp_id = id(i)
                     /\ (\A j \in Valid(fs) \ {i} : id(j) # id(i)) =>
                            log[k].results[e].mapping
                                = map_single_tp(extract_frontmatter_raw(fs[i]), SmallCatalog, TacticNameToId)

\* an apply run skipped the first file, which holds an ft3_tactics line, and
\* rewrote the second
C20_Witness ==
    /\ Len(log) = 1
    /\ log[1].apply
    /\ Len(log[1].before) = MaxFiles
    /\ log[1].skipped = {1}
    /\ \E i \in 1..Len(Lines(log[1].before[1])) : StartsWith(Lines(log[1].before[1])[i], FieldKey)
    /\ log[1].after[MaxFiles] # log[1].before[MaxFiles]
    /\ output.rows # <<>>

-----------------------------------------------------------------------------
(* Properties of the FinCEN adapter and of the database build.             *)

RECURSIVE DataRows(_)
\* the rows after the header row, over the tables that have at least 2 rows
DataRows(tables) ==
    IF tables = <<>> THEN 0
    ELSE (IF Len(Head(tables)) >= 2 THEN Len(Head(tables)) - 1 ELSE 0) + DataRows(Tail(tables))

\* C21: FinCENSource.parse, handed a list of extracted tables, returns one
\* alert for every row after the header row of every table that has at
\* least 2 rows, and none for a table with fewer rows.
C21_AlertPerTableRow ==
    \A k \in 1..Len(call) :
        call[k].source = "fincen" /\ call[k].raw.t = "list"
            => ~call[k].raised /\ Len(call[k].alerts) = DataRows(call[k].raw.s)

\* the alert_id cell of the k-th line of the CSV, as the reader strips it
CsvAlertId(k) == Strip(RowGet(csv_file.rows[1], csv_file.rows[k], <<"a", "l", "e", "r", "t", "_", "i", "d">>))

\* the data lines of the CSV that are the last to carry their alert_id
LastRows ==
    { k \in 2..Len(csv_file.rows) :
        CsvAlertId(k) # <<>> /\ \A j \in (k + 1)..Len(csv_file.rows) : CsvAlertId(j) # CsvAlertId(k) }

\* the database that holds the k-th line of the CSV alone
Alone(k) == IngestRow(NoDb, csv_file.rows[1], csv_file.rows[k])

\* C22: replace semantics: after build_regulatory_alerts has ingested a CSV,
\* the database holds for every alert_id exactly the data of the last row
\* that carries it: that row's columns in regulatory_alerts, and that row's
\* TP mappings and no others in regulatory_alert_tp_mapping.
C22_LastRowWins ==
    (db.built /\ csv_file.exists /\ csv_file.rows # <<>>) =>
        \A k \in LastRows :
            /\ db.alerts[CsvAlertId(k)] = Alone(k).alerts[CsvAlertId(k)]
            /\ StoredTpIds(db.mapping, CsvAlertId(k)) = StoredTpIds(Alone(k).mapping, CsvAlertId(k))

-----------------------------------------------------------------------------
(* Properties of the suggestion map_single_tp computes.                    *)

\* the fraud types of the header handed to map_single_tp
FraudTypesOf(c) == StrList(Get(c.meta.fraud_types, [t |-> "list", items |-> <<>>]))

\* the scored techniques of a call, before the retain loop
Matches(c) == map_fraud_types_to_techniques(FraudTypesOf(c), c.techniques)

\* the identifiers of the scored techniques with the given parent
MatchedUnder(c, parent_id) ==
    { Matches(c)[i].id : i \in { j \in 1..Len(Matches(c)) : ParentId(Matches(c)[j].id) = parent_id } }

\* C23: no two retained techniques have the same parent identifier (the
\* part of the identifier before "."): a parent and one of its
\* sub-techniques, or two sub-techniques of one parent, are never both kept.
C23_OnePerParent ==
    mapcall # <<>> =>
        LET ids == mapcall[1].result.suggested_ft3_techniques IN
        \A i, j \in 1..Len(ids) : i # j => ParentId(ids[i]) # ParentId(ids[j])

\* a parent and two of its sub-techniques all scored 4 or more, and one of
\* the three was kept
C23_Witness ==
    /\ mapcall # <<>>
    /\ \E parent_id \in MatchedUnder(mapcall[1], <<"F", "T", "0", "0", "1">>) :
          /\ ~Contains(parent_id, <<".">>)
          /\ Cardinality(MatchedUnder(mapcall[1], parent_id)) = 3
          /\ \A i \in 1..Len(Matches(mapcall[1])) :
                ParentId(Matches(mapcall[1])[i].id) = parent_id => Matches(mapcall[1])[i].score >= SubScore
          /\ Cardinality({ i \in 1..Len(mapcall[1].result.suggested_ft3_techniques) :
                            ParentId(mapcall[1].result.suggested_ft3_techniques[i]) = parent_id }) = 1

\* the distinct search terms of a call, in lower case
Terms(c) == { Lower(AllTerms(FraudTypesOf(c))[i]) : i \in 1..Len(AllTerms(FraudTypesOf(c))) }

\* the first technique of the catalog with that identifier
CatalogTech(c, tid) == c.techniques[Min({ k \in 1..Len(c.techniques) : c.techniques[k].id = tid })]

\* the terms that occur in the name of a technique
NameHits(c, tech) == { term \in Terms(c) : Contains(Lower(tech.name.s), term) }

\* the terms that occur in the description of a technique
DescHits(c, tech) == { term \in Terms(c) : Contains(Lower(Get(tech.description, Str(<<>>)).s), term) }

\* the terms that occur in the text searched: name, a space, description
Hits(c, tech) ==
    { term \in Terms(c) :
        Contains(Lower(tech.name.s) \o <<" ">> \o Lower(Get(tech.description, Str(<<>>)).s), term) }

\* the retained sub-techniques of a call, as catalog entries
RetainedSubs(c) ==
    { CatalogTech(c, c.result.suggested_ft3_techniques[i]) :
        i \in { j \in 1..Len(c.result.suggested_ft3_techniques) :
                  Contains(c.result.suggested_ft3_techniques[j], <<".">>) } }

\* the score the result records for a retained technique
ScoreOf(c, tid) ==
    c.result.detail.technique_scores[
        CHOOSE i \in 1..Len(c.result.detail.technique_scores) : c.result.detail.technique_scores[i].id = tid].score

\* C24 as stated: a retained sub-technique scores at least 4, and at least
\* one of its matching terms occurs in its name.
C24_SubNeedsNameMatch ==
    mapcall # <<>> =>
        \A tech \in RetainedSubs(mapcall[1]) :
            /\ ScoreOf(mapcall[1], tech.id) >= SubScore
            /\ NameHits(mapcall[1], tech) # {}

\* C24 amended: a retained sub-technique scores at least 4: one term in its
\* name and one more matching term, or two terms in its name, or four
\* matching terms none of which is in its name.
C24_SubNeedsScore ==
    mapcall # <<>> =>
        \A tech \in RetainedSubs(mapcall[1]) :
            /\ ScoreOf(mapcall[1], tech.id) >= SubScore
            /\ \/ Cardinality(NameHits(mapcall[1], tech)) >= 1 /\ Cardinality(Hits(mapcall[1], tech)) >= 2
               \/ Cardinality(NameHits(mapcall[1], tech)) >= 2
               \/ NameHits(mapcall[1], tech) = {} /\ Cardinality(Hits(mapcall[1], tech)) >= 4

\* a sub-technique was kept on four terms of its description alone, and
\* another call dropped a sub-technique that matched two
C24_Witness ==
    /\ mapcall # <<>>
    /\ \E tech \in RetainedSubs(mapcall[1]) :
          NameHits(mapcall[1], tech) = {} /\ ScoreOf(mapcall[1], tech.id) = SubScore
    /\ \E k \in 1..Len(SmallCatalog) :
          /\ Contains(SmallCatalog[k].id, <<".">>)
          /\ TechScore(AllTerms(FraudTypesOf(mapcall[1])), SmallCatalog[k]) \in 1..(SubScore - 1)
          /\ \A i \in 1..Len(map_single_tp(mapcall[1].meta, SmallCatalog, TacticNameToId).suggested_ft3_techniques) :
                map_single_tp(mapcall[1].meta, SmallCatalog, TacticNameToId).suggested_ft3_techniques[i] # SmallCatalog[k].id

\* the score C25 states: 3 for every distinct term in the name, 1 for every
\* distinct term in the description but not in the name
StatedScore(c, tech) ==
    NameScore * Cardinality(NameHits(c, tech)) + DescScore * Cardinality(DescHits(c, tech) \ NameHits(c, tech))

\* C25: the score of every catalog technique is 3.0 for each distinct search
\* term that occurs in its name plus 1.0 for each distinct term that occurs
\* in its description but not in its name; techniques that score 0 are
\* left out, and the result is in order of non-increasing score.
C25_KeywordScore ==
    mapcall # <<>> =>
        /\ \A i \in 1..Len(Matches(mapcall[1])) :
              Matches(mapcall[1])[i].score = StatedScore(mapcall[1], CatalogTech(mapcall[1], Matches(mapcall[1])[i].id))
        /\ { Matches(mapcall[1])[i].id : i \in 1..Len(Matches(mapcall[1])) }
              = { mapcall[1].techniques[k].id : k \in { j \in 1..Len(mapcall[1].techniques) :
                                                          StatedScore(mapcall[1], mapcall[1].techniques[j]) > 0 } }
        /\ \A i \in 1..(Len(Matches(mapcall[1])) - 1) :
              Matches(mapcall[1])[i].score >= Matches(mapcall[1])[i + 1].score

RECURSIVE StatedTerms(_)
\* the expansion C26 states: the list of the dictionary for a tag that is a
\* key (as written, or once stripped and put in lower case), the tag text
\* with hyphens replaced by spaces for any other
StatedTerms(fraud_types) ==
    IF fraud_types = <<>> THEN <<>>
    ELSE (IF Head(fraud_types) \in DOMAIN FRAUD_TYPE_KEYWORDS
          THEN FRAUD_TYPE_KEYWORDS[Head(fraud_types)]
          ELSE IF Lower(Strip(Head(fraud_types))) \in DOMAIN FRAUD_TYPE_KEYWORDS
          THEN FRAUD_TYPE_KEYWORDS[Lower(Strip(Head(fraud_types)))]
          ELSE <<Replace(Lower(Strip(Head(fraud_types))), "-", " ")>>)
         \o StatedTerms(Tail(fraud_types))

\* C26: every fraud-type tag that is a key of the keyword dictionary is
\* expanded to the term list of that key, so every entry of the dictionary
\* is reached by its own key, and only a tag the dictionary does not hold
\* falls back to the one term made of the tag with hyphens replaced by
\* spaces.
C26_KeywordExpansion ==
    mapcall # <<>> => AllTerms(FraudTypesOf(mapcall[1])) = StatedTerms(FraudTypesOf(mapcall[1]))

\* the tactics the phase table gives for the phases of a call
PhaseTactics(c) ==
    LET cfpf_phases == StrList(Get(c.meta.cfpf_phases, [t |-> "list", items |-> <<>>])) IN
    { tactic \in UNION { Range(CFPF_TO_FT3_TACTICS[key]) : key \in DOMAIN CFPF_TO_FT3_TACTICS } :
        \E i \in 1..Len(cfpf_phases) :
            /\ ToUpper(Strip(cfpf_phases[i])) \in DOMAIN CFPF_TO_FT3_TACTICS
            /\ tactic \in Range(CFPF_TO_FT3_TACTICS[ToUpper(Strip(cfpf_phases[i]))]) }

\* the tactics the stage table gives for the stages of a call
StageTactics(c) ==
    LET groupib_stages == StrList(Get(c.meta.groupib_stages, [t |-> "list", items |-> <<>>])) IN
    { GROUPIB_TO_FT3_TACTIC[Strip(groupib_stages[i])] :
        i \in { j \in 1..Len(groupib_stages) : Strip(groupib_stages[j]) \in DOMAIN GROUPIB_TO_FT3_TACTIC } }

\* the retained techniques whose parent-tactic name the tactic index holds
Indexed(c) ==
    { i \in 1..Len(c.result.suggested_ft3_techniques) :
        Get(CatalogTech(c, c.result.suggested_ft3_techniques[i]).tactics, Str(<<>>)).s \in DOMAIN TacticNameToId }

\* the tactic ids of the parent-tactic names of the retained techniques
ImpliedTactics(c) ==
    { TacticNameToId[Get(CatalogTech(c, c.result.suggested_ft3_techniques[i]).tactics, Str(<<>>)).s] : i \in Indexed(c) }

\* C27: suggested_ft3_tactics holds, in ascending order and without
\* duplicates, exactly the tactics of the phase table for the phases, those
\* of the stage table for the stages and the tactic ids of the parent-tactic
\* names of the retained techniques; a technique whose parent-tactic name
\* the index does not hold adds nothing.
C27_TacticsAreTheUnion ==
    mapcall # <<>> =>
        LET tactics == mapcall[1].result.suggested_ft3_tactics IN
        /\ Range(tactics) = PhaseTactics(mapcall[1]) \cup StageTactics(mapcall[1]) \cup ImpliedTactics(mapcall[1])
        /\ \A i \in 1..(Len(tactics) - 1) : StrLess(tactics[i], tactics[i + 1])

\* the three sets are non-empty and overlap, and one retained technique
\* names a tactic the index does not hold
C27_Witness ==
    /\ mapcall # <<>>
    /\ PhaseTactics(mapcall[1]) \cap StageTactics(mapcall[1]) # {}
    /\ PhaseTactics(mapcall[1]) \cap ImpliedTactics(mapcall[1]) # {}
    /\ StageTactics(mapcall[1]) \ PhaseTactics(mapcall[1]) # {}
    /\ Indexed(mapcall[1]) # {}
    /\ Indexed(mapcall[1]) # 1..Len(mapcall[1].result.suggested_ft3_techniques)
    /\ Len(mapcall[1].result.suggested_ft3_tactics) > 1

\* the parts of a notes string, which "; " separates
NoteParts(notes) ==
    LET breaks == { i \in 1..Len(notes) : notes[i] = ";" } \cup {0, Len(notes) + 1}
        nth(k) == CHOOSE p \in breaks : Cardinality({ q \in breaks : q < p }) = k
    IN [k \in 1..(Cardinality(breaks) - 1) |-> LStrip(SubSeq(notes, nth(k - 1) + 1, nth(k) - 1))]

\* the parts of a notes string that list tactics: one for each group
TacticGroups(notes) ==
    { i \in 1..Len(NoteParts(notes)) : StartsWith(NoteParts(notes)[i], <<"T", "a", "c", "t", "i", "c", "s", " ">>) }

\* C28: the notes partition the suggested tactics: every tactic of
\* suggested_ft3_tactics is listed in exactly one of the groups of the notes
\* (confirmed by both signals, phases only, stages only).
C28_NotesPartition ==
    mapcall # <<>> =>
        \A i \in 1..Len(mapcall[1].result.suggested_ft3_tactics) :
            Cardinality({ g \in TacticGroups(mapcall[1].result.notes) :
                            Contains(NoteParts(mapcall[1].result.notes)[g], mapcall[1].result.suggested_ft3_tactics[i]) }) = 1

-----------------------------------------------------------------------------
(* Properties of apply_ft3_tactics on block sequences and of the apply     *)
(* loop of main.                                                           *)

\* the line is an item of a block sequence: "- value" at any indentation
IsItem(line) == StartsWith(LStrip(line), <<"-", " ">>)

\* how many item lines follow line k
ItemsBelow(lines, k) ==
    Max({ n \in 0..(Len(lines) - k) : \A j \in 1..n : IsItem(lines[k + j]) })

\* the lines with the key line k and its item lines replaced by one line
BlockReplaced(lines, k, line) ==
    SubSeq(lines, 1, k - 1) \o <<line>> \o SubSeq(lines, k + ItemsBelow(lines, k) + 1, Len(lines))

\* C29: when the header holds the field as a block sequence, the key alone
\* on its line and the items on the lines below, the call succeeds and the
\* key line and all its item lines become the one line of the new flow
\* sequence: no old item line stays, and every other line is as before.
C29_BlockReplaced ==
    applied # <<>> =>
        \A k \in HeaderLines(applied[1].text) :
            RStrip(Lines(applied[1].text)[k]) = RStrip(FieldKey) =>
                /\ applied[1].ok
                /\ Lines(files[1]) = BlockReplaced(Lines(applied[1].text), k, Replacement(applied[1].tactic_ids))

\* the text of a file after its own suggestion has been applied to it
OwnApplied(text, meta) ==
    apply_ft3_tactics(text, map_single_tp(meta, SmallCatalog, TacticNameToId).suggested_ft3_tactics).text

\* C30: in apply mode the tactic list written into a file is the suggestion
\* computed from the phases, stages and fraud types of that same file,
\* whatever the other files are, files that declare the same id included.
C30_OwnSuggestionApplied ==
    \A k \in 1..Len(log) :
        log[k].apply =>
            \A i \in 1..Len(log[k].before) :
                extract_frontmatter_raw(log[k].before[i]).valid =>
                    log[k].after[i] = OwnApplied(log[k].before[i], extract_frontmatter_raw(log[k].before[i]))

====
